---- MODULE Spec2Model ----
(***************************************************************************)
(* EL2 virtualization core of the kernel (arch/aarch64/virt): the exit     *)
(* dispatcher (exit.rs), the vCPU store (vcpu.rs), the virtual interrupt   *)
(* controller (vgic.rs) and the lower-EL synchronous trampoline            *)
(* (vector.rs).                                                            *)
(*                                                                         *)
(* 64-bit machine words are four 16-bit limbs, least significant first,    *)
(* so that every u64 of the program is represented exactly.  u64/usize     *)
(* addition is wrapping addition modulo 2^64 (the build without overflow   *)
(* checks).                                                                *)
(***************************************************************************)
EXTENDS Integers, Sequences, FiniteSets, TLC

VARIABLES
    pc,               \* position of the physical core
    VCPU_MANAGER,     \* mod.rs: static VCPU_MANAGER (vcpus, count, current_vcpu)
    VGIC_CPU_STATES,  \* vgic.rs: static VGIC_CPU_STATES, one Vgic per vCPU
    lr,               \* hardware list registers ICH_LR0..3_EL2
    x,                \* general registers x0..x30 of the physical core
    elr_el2,          \* hardware ELR_EL2
    spsr_el2,         \* hardware SPSR_EL2
    esr_el2,          \* hardware ESR_EL2
    vbar_el1,         \* hardware VBAR_EL1
    frame,            \* the 33-word trap frame built by sync_from_lower_el1
    exit_info,        \* the VmExitInfo of the exit being dispatched
    ok,               \* the verdict returned by handle_vm_exit
    traps,            \* number of guest traps taken so far
    ret,              \* value returned by the last VcpuManager call of the host
    vgic_log,         \* identifiers accepted by inject / written to list registers
    call              \* the VcpuManager call the host made last, with its arguments

vars == <<pc, VCPU_MANAGER, VGIC_CPU_STATES, lr, x, elr_el2, spsr_el2,
          esr_el2, vbar_el1, frame, exit_info, ok, traps, ret, vgic_log, call>>

\* what the exit path leaves alone
hostvars == <<ret, vgic_log, call>>

----------------------------------------------------------------------------
(* Program constants and model bounds *)

MAX_LR == 4
MAX_PENDING == 64
MAX_VCPUS == 4

\* the guest takes at most MaxTraps traps in one behaviour
MaxTraps == 1
\* hypervisor-call immediates 0..MaxHvcNum (and 0xFFFF) are presented
MaxHvcNum == 6
\* the host holds at most MaxNotStopped cores outside the Stopped state
MaxNotStopped == 1
\* at most MaxInject identifiers are presented to inject with no flush between
MaxInject == 66
\* at most MaxInterleaved identifiers are presented to inject between flushes
\* and guest activity
MaxInterleaved == 3
\* flush is called while fewer than MaxWritten identifiers have been written
MaxWritten == 4
\* injections while the guest is being resumed again and again
MaxDeliver == 2

----------------------------------------------------------------------------
(* 64-bit words *)

W64(h3, h2, h1, h0) == <<h0, h1, h2, h3>>
U(n) == <<n % 65536, n \div 65536, 0, 0>>
Zero64 == U(0)

\* a + n modulo 2^64, for 0 <= n < 2^16
Add64(a, n) ==
    LET s1 == a[1] + n
        s2 == a[2] + (s1 \div 65536)
        s3 == a[3] + (s2 \div 65536)
        s4 == a[4] + (s3 \div 65536)
    IN  <<s1 % 65536, s2 % 65536, s3 % 65536, s4 % 65536>>

None == <<>>
Some(v) == <<v>>

----------------------------------------------------------------------------
(* exit.rs: classification *)

\* (esr >> 26) & 0x3F
ExceptionClass(esr) == (esr[2] \div (2^10)) % 64

\* variant: the class is taken one bit too low, (esr >> 25) & 0x3F
parse_exit_reason_shift25(esr) ==
    LET ec == (esr[2] \div (2^9)) % 64 IN
    CASE ec = \h16 -> <<"Hvc">>
      [] ec = \h15 -> <<"Svc">>
      [] ec = \h24 -> <<"DataAbortLowerEL">>
      [] ec = \h20 -> <<"InstructionAbortLowerEL">>
      [] ec = \h01 -> <<"TrappedWfiWfe">>
      [] OTHER -> <<"Unknown", ec>>

parse_exit_reason(esr) ==
    LET ec == ExceptionClass(esr) IN
    CASE ec = \h16 -> <<"Hvc">>
      [] ec = \h15 -> <<"Svc">>
      [] ec = \h24 -> <<"DataAbortLowerEL">>
      [] ec = \h20 -> <<"InstructionAbortLowerEL">>
      [] ec = \h01 -> <<"TrappedWfiWfe">>
      [] OTHER -> <<"Unknown", ec>>

----------------------------------------------------------------------------
(* vgic.rs *)

Vgic_new ==
    [pending_irqs |-> [i \in 0..(MAX_PENDING - 1) |-> 0],
     pending_count |-> 0,
     pending_head |-> 0,
     pending_tail |-> 0]

\* state field of a list register: (lr >> 62) & 0x3
LrState(v) == (v[4] \div (2^14)) % 4

\* variant: the Group-1 bit (1 << 60) is left out of the list-register value
LrPendingGroup0(intid) == <<intid % 65536, intid \div 65536, 0, \h4000>>

\* (1 << 62) | (1 << 60) | intid
LrPendingGroup1(intid) == <<intid % 65536, intid \div 65536, 0, \h5000>>

\* ICH_ELRSR_EL2 as the set of list registers the hardware reports empty
ICH_ELRSR(lrs) == {i \in 0..(MAX_LR - 1) : LrState(lrs[i]) = 0}

read_lr(lrs, index) == IF index \in 0..3 THEN lrs[index] ELSE Zero64

write_lr(lrs, index, val) ==
    IF index \in 0..3 THEN [lrs EXCEPT ![index] = val] ELSE lrs

\* variant: a full queue takes the identifier over its oldest entry
inject_overwrites_when_full(states, vcpu_id, intid) ==
    IF vcpu_id >= MAX_VCPUS THEN states
    ELSE LET vgic == states[vcpu_id] IN
         IF vgic.pending_count >= MAX_PENDING
         THEN [states EXCEPT ![vcpu_id].pending_irqs[vgic.pending_tail] = intid]
         ELSE [states EXCEPT ![vcpu_id] =
                 [pending_irqs  |-> [vgic.pending_irqs EXCEPT ![vgic.pending_tail] = intid],
                  pending_tail  |-> (vgic.pending_tail + 1) % MAX_PENDING,
                  pending_count |-> vgic.pending_count + 1,
                  pending_head  |-> vgic.pending_head]]

\* variant: the tail index is advanced without the wrap to MAX_PENDING
inject_tail_unwrapped(states, vcpu_id, intid) ==
    IF vcpu_id >= MAX_VCPUS THEN states
    ELSE LET vgic == states[vcpu_id] IN
         IF vgic.pending_count >= MAX_PENDING THEN states
         ELSE [states EXCEPT ![vcpu_id] =
                 [pending_irqs  |-> [vgic.pending_irqs EXCEPT ![vgic.pending_tail] = intid],
                  pending_tail  |-> vgic.pending_tail + 1,
                  pending_count |-> vgic.pending_count + 1,
                  pending_head  |-> vgic.pending_head]]

inject(states, vcpu_id, intid) ==
    IF vcpu_id >= MAX_VCPUS THEN states
    ELSE LET vgic == states[vcpu_id] IN
         IF vgic.pending_count >= MAX_PENDING THEN states
         ELSE [states EXCEPT ![vcpu_id] =
                 [pending_irqs  |-> [vgic.pending_irqs EXCEPT ![vgic.pending_tail] = intid],
                  pending_tail  |-> (vgic.pending_tail + 1) % MAX_PENDING,
                  pending_count |-> vgic.pending_count + 1,
                  pending_head  |-> vgic.pending_head]]

\* variant: Active list registers are left as they are
ClearActive_keeps(lrs, elrsr, i) == lrs

\* variant: the clearing loop also takes Pending-and-Active list registers
RECURSIVE ClearActive_any_active(_, _, _)
ClearActive_any_active(lrs, elrsr, i) ==
    IF i >= MAX_LR THEN lrs
    ELSE IF i \notin elrsr /\ LrState(read_lr(lrs, i)) >= 2
         THEN ClearActive_any_active(write_lr(lrs, i, Zero64), elrsr, i + 1)
         ELSE ClearActive_any_active(lrs, elrsr, i + 1)

\* for i in 0..MAX_LR: clear every non-empty list register whose state is Active
RECURSIVE ClearActive(_, _, _)
ClearActive(lrs, elrsr, i) ==
    IF i >= MAX_LR THEN lrs
    ELSE IF i \notin elrsr /\ LrState(read_lr(lrs, i)) = 2
         THEN ClearActive(write_lr(lrs, i, Zero64), elrsr, i + 1)
         ELSE ClearActive(lrs, elrsr, i + 1)

\* variant: the fill loop takes the newest pending identifier, not the oldest
RECURSIVE FillFree_newest_first(_, _, _, _)
FillFree_newest_first(vgic, lrs, free_mask, i) ==
    IF i >= MAX_LR THEN [vgic |-> vgic, lr |-> lrs]
    ELSE IF i \in free_mask /\ vgic.pending_count > 0
         THEN LET last == (vgic.pending_tail + MAX_PENDING - 1) % MAX_PENDING
                  intid == vgic.pending_irqs[last]
                  v1 == [vgic EXCEPT
                           !.pending_tail = last,
                           !.pending_count = vgic.pending_count - 1]
              IN  FillFree_newest_first(v1, write_lr(lrs, i, LrPendingGroup1(intid)),
                                        free_mask \ {i}, i + 1)
         ELSE FillFree_newest_first(vgic, lrs, free_mask, i + 1)

\* for i in 0..MAX_LR: fill free list registers from the head of the queue
RECURSIVE FillFree(_, _, _, _)
FillFree(vgic, lrs, free_mask, i) ==
    IF i >= MAX_LR THEN [vgic |-> vgic, lr |-> lrs]
    ELSE IF i \in free_mask /\ vgic.pending_count > 0
         THEN LET intid == vgic.pending_irqs[vgic.pending_head]
                  v1 == [vgic EXCEPT
                           !.pending_head = (vgic.pending_head + 1) % MAX_PENDING,
                           !.pending_count = vgic.pending_count - 1]
              IN  FillFree(v1, write_lr(lrs, i, LrPendingGroup1(intid)),
                           free_mask \ {i}, i + 1)
         ELSE FillFree(vgic, lrs, free_mask, i + 1)

\* variant: the sanity check resets head and tail but keeps the count
flush_reset_keeps_count(states, lrs, vcpu_id) ==
    IF vcpu_id >= MAX_VCPUS THEN [vgic |-> states, lr |-> lrs]
    ELSE LET v0 == states[vcpu_id]
             v1 == IF v0.pending_head >= MAX_PENDING \/ v0.pending_tail >= MAX_PENDING
                   THEN [v0 EXCEPT !.pending_head = 0, !.pending_tail = 0]
                   ELSE v0
             lrs1 == ClearActive(lrs, ICH_ELRSR(lrs), 0)
             r == FillFree(v1, lrs1, ICH_ELRSR(lrs1) \cap (0..3), 0)
         IN  [vgic |-> [states EXCEPT ![vcpu_id] = r.vgic], lr |-> r.lr]

\* variant: flush clears Active list registers but fills none
flush_clear_only(states, lrs, vcpu_id) ==
    IF vcpu_id >= MAX_VCPUS THEN [vgic |-> states, lr |-> lrs]
    ELSE LET v0 == states[vcpu_id]
             v1 == IF v0.pending_head >= MAX_PENDING \/ v0.pending_tail >= MAX_PENDING
                   THEN [v0 EXCEPT !.pending_head = 0, !.pending_tail = 0,
                                   !.pending_count = 0]
                   ELSE v0
             lrs1 == ClearActive(lrs, ICH_ELRSR(lrs), 0)
         IN  [vgic |-> [states EXCEPT ![vcpu_id] = v1], lr |-> lrs1]

\* returns the new VGIC_CPU_STATES and list registers
flush(states, lrs, vcpu_id) ==
    IF vcpu_id >= MAX_VCPUS THEN [vgic |-> states, lr |-> lrs]
    ELSE LET v0 == states[vcpu_id]
             v1 == IF v0.pending_head >= MAX_PENDING \/ v0.pending_tail >= MAX_PENDING
                   THEN [v0 EXCEPT !.pending_head = 0, !.pending_tail = 0,
                                   !.pending_count = 0]
                   ELSE v0
             lrs1 == ClearActive(lrs, ICH_ELRSR(lrs), 0)
             r == FillFree(v1, lrs1, ICH_ELRSR(lrs1) \cap (0..3), 0)
         IN  [vgic |-> [states EXCEPT ![vcpu_id] = r.vgic], lr |-> r.lr]

current_vcpu_id(mgr) == mgr.current_vcpu

\* variant: the interrupt is queued on vCPU 0 whichever core is current
inject_irq_core0(mgr, states, intid) == inject(states, 0, intid)

inject_irq(mgr, states, intid) ==
    IF current_vcpu_id(mgr) # None
    THEN inject(states, current_vcpu_id(mgr)[1], intid)
    ELSE states

inject_fiq(mgr, states, intid) == states

----------------------------------------------------------------------------
(* vcpu.rs *)

VcpuStateStruct_new ==
    [regs |-> [i \in 0..30 |-> Zero64],
     elr_el2 |-> Zero64, sp |-> Zero64, pstate |-> Zero64,
     spsr |-> Zero64, vbar_el1 |-> Zero64]

\* variant: the saved exception-return PSTATE keeps its Default value
Vcpu_new_default_spsr(id, entry, stack_top) ==
    [id |-> id,
     state |-> "Stopped",
     context |-> [VcpuStateStruct_new EXCEPT !.elr_el2 = entry],
     entry |-> entry,
     stack_top |-> stack_top,
     pending_irq |-> FALSE,
     pending_fiq |-> FALSE]

Vcpu_new(id, entry, stack_top) ==
    [id |-> id,
     state |-> "Stopped",
     context |-> [VcpuStateStruct_new EXCEPT !.elr_el2 = entry, !.spsr = U(\h3C5)],
     entry |-> entry,
     stack_top |-> stack_top,
     pending_irq |-> FALSE,
     pending_fiq |-> FALSE]

get_vcpu(mgr, id) == mgr.vcpus[id]

----------------------------------------------------------------------------
(* exit.rs: handlers.  Each returns the vCPU, the verdict and the globals  *)
(* it may have written (hardware VBAR_EL1, VGIC_CPU_STATES).               *)

\* variant: the shutdown arm lacks its `return false` and falls through
hvc_returns_early_never(hvc_num) == FALSE

\* `2 => return false`: the shutdown request leaves the handler at once
hvc_returns_early(hvc_num) == hvc_num = 2

\* what `match hvc_num` does to the saved context
hvc_match_context(context, hvc_num) ==
    CASE hvc_num = 1 -> [context EXCEPT !.regs[0] = U(\h48495001)]
      [] hvc_num = 3 -> [context EXCEPT !.vbar_el1 = U(\h48000800)]
      [] OTHER -> context

\* variant: the vector base is forced by every call numbered 3 or above
hvc_match_vbar_from3(hw_vbar, hvc_num) ==
    IF hvc_num >= 3 THEN U(\h48000800) ELSE hw_vbar

\* what `match hvc_num` does to the hardware VBAR_EL1
hvc_match_vbar(hw_vbar, hvc_num) ==
    IF hvc_num = 3 THEN U(\h48000800) ELSE hw_vbar

\* what `match hvc_num` does to VGIC_CPU_STATES
hvc_match_vgic(mgr, states, hvc_num) ==
    CASE hvc_num = 3 -> inject_irq(mgr, states, 32)
      [] hvc_num = 4 -> inject_fiq(mgr, states, 33)
      [] OTHER -> states

\* variant: register 0 is restored after every call, the identifier call too
hvc_restore_x0_always(context, saved_x0, hvc_num) ==
    [context EXCEPT !.regs[0] = saved_x0]

\* `if hvc_num != 1 { context.regs[0] = saved_x0 }`
hvc_restore_x0(context, saved_x0, hvc_num) ==
    IF hvc_num # 1 THEN [context EXCEPT !.regs[0] = saved_x0] ELSE context

\* variant: the return address is not advanced
hvc_advance_elr_skipped(context) == context

\* `context.elr_el2 += 4`
hvc_advance_elr(context) ==
    [context EXCEPT !.elr_el2 = Add64(context.elr_el2, 4)]

handle_hvc(vcpu, info, hw_vbar, mgr, states) ==
    LET saved_x0 == vcpu.context.regs[0]
        hvc_num == info.esr[1]
        c1 == hvc_match_context(vcpu.context, hvc_num)
        c2 == hvc_restore_x0(c1, saved_x0, hvc_num)
        c3 == hvc_advance_elr(c2)
    IN  IF hvc_returns_early(hvc_num)
        THEN [vcpu |-> vcpu, ret |-> FALSE, vbar_el1 |-> hw_vbar, vgic |-> states]
        ELSE [vcpu |-> [vcpu EXCEPT !.context = c3],
              ret |-> TRUE,
              vbar_el1 |-> hvc_match_vbar(hw_vbar, hvc_num),
              vgic |-> hvc_match_vgic(mgr, states, hvc_num)]

\* variant: the error sentinel is the 64-bit all-ones value
handle_svc_sentinel64(vcpu, info) ==
    LET context == vcpu.context
        svc_num == context.regs[0]
        c1 == CASE svc_num = U(0) -> [context EXCEPT !.regs[0] = U(0)]
                [] svc_num = U(1) -> [context EXCEPT !.regs[0] = U(1)]
                [] OTHER -> [context EXCEPT !.regs[0] =
                                              W64(\hFFFF, \hFFFF, \hFFFF, \hFFFF)]
        c2 == [c1 EXCEPT !.elr_el2 = info.return_addr]
    IN  [vcpu |-> [vcpu EXCEPT !.context = c2], ret |-> TRUE]

handle_svc(vcpu, info) ==
    LET context == vcpu.context
        svc_num == context.regs[0]
        c1 == CASE svc_num = U(0) -> [context EXCEPT !.regs[0] = U(0)]
                [] svc_num = U(1) -> [context EXCEPT !.regs[0] = U(1)]
                [] OTHER -> [context EXCEPT !.regs[0] = W64(0, 0, \hFFFF, \hFFFF)]
        c2 == [c1 EXCEPT !.elr_el2 = info.return_addr]
    IN  [vcpu |-> [vcpu EXCEPT !.context = c2], ret |-> TRUE]

\* variant: a fault whose status code is not a stage-2 translation fault is
\* skipped and the guest resumed
handle_abort_recovers(vcpu, esr) ==
    IF (esr[1] % 64) \div 4 = 5
    THEN [vcpu |-> vcpu, ret |-> FALSE]
    ELSE [vcpu |-> [vcpu EXCEPT !.context.elr_el2 = Add64(vcpu.context.elr_el2, 4)],
          ret |-> TRUE]

\* the DataAbortLowerEL and InstructionAbortLowerEL arms: log the fault
\* status code iss & 0x3F, then `false`
handle_abort(vcpu, esr) == [vcpu |-> vcpu, ret |-> FALSE]

\* variant: the trapped wait instruction is resumed without being skipped
handle_wfx_no_skip(vcpu) == [vcpu |-> vcpu, ret |-> TRUE]

\* the TrappedWfiWfe arm: `vcpu.context_mut().elr_el2 += 4; true`
handle_wfx(vcpu) ==
    [vcpu |-> [vcpu EXCEPT !.context.elr_el2 = Add64(vcpu.context.elr_el2, 4)],
     ret |-> TRUE]

\* the Unknown(ec) arm: `false`
handle_unknown(vcpu, ec) == [vcpu |-> vcpu, ret |-> FALSE]

\* variant: the return address is two instructions after the faulting one
VmExitInfo_return8(esr, far, pstate) ==
    [reason |-> parse_exit_reason(esr), esr |-> esr, far |-> far,
     pstate |-> pstate, return_addr |-> Add64(far, 8)]

VmExitInfo(esr, far, pstate) ==
    [reason |-> parse_exit_reason(esr), esr |-> esr, far |-> far,
     pstate |-> pstate, return_addr |-> Add64(far, 4)]

\* esr, elr and spsr are the values read from ESR_EL2, ELR_EL2 and SPSR_EL2
handle_vm_exit(vcpu, esr, elr, spsr, hw_vbar, mgr, states) ==
    LET info == VmExitInfo(esr, elr, spsr)
        reason == info.reason[1]
        same(r) == [vcpu |-> r.vcpu, ret |-> r.ret, vbar_el1 |-> hw_vbar,
                    vgic |-> states, info |-> info]
    IN  CASE reason = "Hvc" ->
               LET h == handle_hvc(vcpu, info, hw_vbar, mgr, states)
               IN  [vcpu |-> h.vcpu, ret |-> h.ret, vbar_el1 |-> h.vbar_el1,
                    vgic |-> h.vgic, info |-> info]
          [] reason = "Svc" -> same(handle_svc(vcpu, info))
          [] reason = "DataAbortLowerEL" -> same(handle_abort(vcpu, esr))
          [] reason = "InstructionAbortLowerEL" -> same(handle_abort(vcpu, esr))
          [] reason = "TrappedWfiWfe" -> same(handle_wfx(vcpu))
          [] OTHER -> same(handle_unknown(vcpu, info.reason[2]))

----------------------------------------------------------------------------
(* Inputs presented by the guest and the hardware *)

\* a syndrome with exception class ec, instruction-length bit il and 25-bit iss
Esr(ec, il, iss) == <<iss % 65536, ec * 1024 + il * 512 + (iss \div 65536), 0, 0>>

HvcNums == (0..MaxHvcNum) \cup {\hFFFF}

EsrSamples ==
    {Esr(\h16, 1, n) : n \in HvcNums}
    \cup {Esr(\h15, 1, 0),
          Esr(\h24, 1, \h07), Esr(\h24, 1, \h14), Esr(\h24, 1, \h1000017),
          Esr(\h20, 1, \h07), Esr(\h20, 0, \h14),
          Esr(\h01, 1, 0),
          Esr(\h00, 0, 0), Esr(\h3F, 1, 3)}

X0Samples ==
    {U(0), U(1), U(\hEEEE), U(\hAAAA), W64(\hFFFF, \hFFFF, \hFFFF, \hFFFF)}

\* register 0 selects the service only for hypervisor and supervisor calls
X0For(esr) ==
    IF ExceptionClass(esr) \in {\h16, \h15} THEN X0Samples ELSE {U(\hEEEE)}

ElrSamples ==
    {U(\h48000104), W64(0, 0, \hFFFF, \hFFFC), W64(\hFFFF, \hFFFF, \hFFFF, \hFFFC)}

SpsrSamples == {U(\h5)}

GuestRegs(x0) == [i \in 0..30 |-> IF i = 0 THEN x0 ELSE U(\h1000 + i)]

\* a well-formed queue of count entries starting at head: interrupts 40, 41, ...
QueueOf(head, count) ==
    [pending_irqs |-> [i \in 0..(MAX_PENDING - 1) |->
                         IF ((i + MAX_PENDING - head) % MAX_PENDING) < count
                         THEN 40 + ((i + MAX_PENDING - head) % MAX_PENDING)
                         ELSE 0],
     pending_count |-> count,
     pending_head |-> head,
     pending_tail |-> (head + count) % MAX_PENDING]

QueueSamples ==
    {QueueOf(0, 0), QueueOf(MAX_PENDING - 4, 3), QueueOf(7, MAX_PENDING)}

\* an Active, Group-1 list register: (2 << 62) | (1 << 60) | intid
LrActiveGroup1(intid) == <<intid % 65536, intid \div 65536, 0, \h9000>>

LrSamples ==
    {[i \in 0..(MAX_LR - 1) |-> Zero64],
     [i \in 0..(MAX_LR - 1) |-> LrPendingGroup1(28 + i)],
     [i \in 0..(MAX_LR - 1) |->
        IF i = 0 THEN LrActiveGroup1(32)
        ELSE IF i = 1 THEN LrPendingGroup1(27) ELSE Zero64]}

GuestEntry == U(\h48000000)
GuestStackTop == U(\h480FFFF0)

\* no VcpuManager call has returned yet
NoReturn == [kind |-> "None", slot |-> 0, msg |-> ""]

\* the host has called nothing yet
Call(op, id, entry, stack_top) ==
    [op |-> op, id |-> id, entry |-> entry, stack_top |-> stack_top]
NoCall == Call("none", 0, Zero64, Zero64)

\* nothing accepted, nothing written
NoLog == [accepted |-> <<>>, written |-> <<>>, injected |-> 0]

NoFrame == [i \in 0..32 |-> Zero64]
NoExit == VmExitInfo(Zero64, Zero64, Zero64)

----------------------------------------------------------------------------
(* vector.rs: the synchronous trap from the guest *)

CurrentId == VCPU_MANAGER.current_vcpu[1]
CurrentVcpu == VCPU_MANAGER.vcpus[CurrentId][1]

\* the guest runs to a trapping instruction; the hardware records the
\* syndrome, the return address and the PSTATE and enters the vector table
TrapSync ==
    /\ pc = "guest"
    /\ traps < MaxTraps
    /\ \E esr \in EsrSamples, elr \in ElrSamples, spsr \in SpsrSamples :
         \E x0 \in X0For(esr) :
            /\ esr_el2' = esr
            /\ elr_el2' = elr
            /\ spsr_el2' = spsr
            /\ x' = GuestRegs(x0)
    /\ pc' = "sync_from_lower_el1"
    /\ traps' = traps + 1
    /\ UNCHANGED hostvars
    /\ UNCHANGED <<VCPU_MANAGER, VGIC_CPU_STATES, lr, vbar_el1, frame, exit_info, ok>>

\* sync_from_lower_el1: store x0..x30, ELR_EL2 and SPSR_EL2 into the frame
sync_from_lower_el1_save ==
    /\ pc = "sync_from_lower_el1"
    /\ frame' = [i \in 0..32 |->
                   IF i <= 30 THEN x[i] ELSE IF i = 31 THEN elr_el2 ELSE spsr_el2]
    /\ pc' = "sync_from_lower_el1_rust"
    /\ UNCHANGED hostvars
    /\ UNCHANGED <<VCPU_MANAGER, VGIC_CPU_STATES, lr, x, elr_el2, spsr_el2,
                   esr_el2, vbar_el1, exit_info, ok, traps>>

\* variant: without a current vCPU the handler returns 1
sync_from_lower_el1_rust_enter_resumes ==
    /\ pc = "sync_from_lower_el1_rust"
    /\ IF current_vcpu_id(VCPU_MANAGER) # None
          /\ get_vcpu(VCPU_MANAGER, CurrentId) # None
       THEN /\ VCPU_MANAGER' =
                 [VCPU_MANAGER EXCEPT !.vcpus[CurrentId] =
                    Some([CurrentVcpu EXCEPT
                            !.context.regs = [i \in 0..30 |-> frame[i]],
                            !.context.elr_el2 = frame[31],
                            !.context.spsr = frame[32]])]
            /\ pc' = "handle_vm_exit"
            /\ ok' = ok
       ELSE /\ ok' = TRUE
            /\ pc' = "sync_return"
            /\ UNCHANGED VCPU_MANAGER
    /\ UNCHANGED hostvars
    /\ UNCHANGED <<VGIC_CPU_STATES, lr, x, elr_el2, spsr_el2, esr_el2, vbar_el1,
                   frame, exit_info, traps>>

\* sync_from_lower_el1_rust, up to the call of handle_vm_exit: look up the
\* current vCPU and copy the frame into its context; return 0 when there is none
sync_from_lower_el1_rust_enter ==
    /\ pc = "sync_from_lower_el1_rust"
    /\ IF current_vcpu_id(VCPU_MANAGER) # None
          /\ get_vcpu(VCPU_MANAGER, CurrentId) # None
       THEN /\ VCPU_MANAGER' =
                 [VCPU_MANAGER EXCEPT !.vcpus[CurrentId] =
                    Some([CurrentVcpu EXCEPT
                            !.context.regs = [i \in 0..30 |-> frame[i]],
                            !.context.elr_el2 = frame[31],
                            !.context.spsr = frame[32]])]
            /\ pc' = "handle_vm_exit"
            /\ ok' = ok
       ELSE /\ ok' = FALSE
            /\ pc' = "sync_return"
            /\ UNCHANGED VCPU_MANAGER
    /\ UNCHANGED hostvars
    /\ UNCHANGED <<VGIC_CPU_STATES, lr, x, elr_el2, spsr_el2, esr_el2, vbar_el1,
                   frame, exit_info, traps>>

\* let ok = handle_vm_exit(vcpu)
HandleVmExit ==
    /\ pc = "handle_vm_exit"
    /\ LET r == handle_vm_exit(CurrentVcpu, esr_el2, elr_el2, spsr_el2, vbar_el1,
                               VCPU_MANAGER, VGIC_CPU_STATES)
       IN  /\ VCPU_MANAGER' = [VCPU_MANAGER EXCEPT !.vcpus[CurrentId] = Some(r.vcpu)]
           /\ ok' = r.ret
           /\ vbar_el1' = r.vbar_el1
           /\ VGIC_CPU_STATES' = r.vgic
           /\ exit_info' = r.info
    /\ pc' = "handle_vm_exit_done"
    /\ UNCHANGED hostvars
    /\ UNCHANGED <<lr, x, elr_el2, spsr_el2, esr_el2, frame, traps>>

\* variant: the vGIC flush is skipped when the verdict is terminate
sync_from_lower_el1_rust_finish_flush_on_resume ==
    /\ pc = "handle_vm_exit_done"
    /\ frame' = [frame EXCEPT ![31] = CurrentVcpu.context.elr_el2,
                              ![0] = CurrentVcpu.context.regs[0]]
    /\ LET f == IF ok THEN flush(VGIC_CPU_STATES, lr, CurrentId)
                 ELSE [vgic |-> VGIC_CPU_STATES, lr |-> lr]
       IN  /\ VGIC_CPU_STATES' = f.vgic
           /\ lr' = f.lr
    /\ pc' = "sync_return"
    /\ UNCHANGED hostvars
    /\ UNCHANGED <<VCPU_MANAGER, x, elr_el2, spsr_el2, esr_el2, vbar_el1,
                   exit_info, ok, traps>>

\* variant: register 0 of the context is not written back into the frame
sync_from_lower_el1_rust_finish_keeps_x0 ==
    /\ pc = "handle_vm_exit_done"
    /\ frame' = [frame EXCEPT ![31] = CurrentVcpu.context.elr_el2]
    /\ LET f == flush(VGIC_CPU_STATES, lr, CurrentId)
       IN  /\ VGIC_CPU_STATES' = f.vgic
           /\ lr' = f.lr
    /\ pc' = "sync_return"
    /\ UNCHANGED hostvars
    /\ UNCHANGED <<VCPU_MANAGER, x, elr_el2, spsr_el2, esr_el2, vbar_el1,
                   exit_info, ok, traps>>

\* variant: the frame is written back after the flush of another core's state
sync_from_lower_el1_rust_finish_flush_core0 ==
    /\ pc = "handle_vm_exit_done"
    /\ frame' = [frame EXCEPT ![31] = CurrentVcpu.context.elr_el2,
                              ![0] = CurrentVcpu.context.regs[0]]
    /\ LET f == flush(VGIC_CPU_STATES, lr, 0)
       IN  /\ VGIC_CPU_STATES' = f.vgic
           /\ lr' = f.lr
    /\ pc' = "sync_return"
    /\ UNCHANGED hostvars
    /\ UNCHANGED <<VCPU_MANAGER, x, elr_el2, spsr_el2, esr_el2, vbar_el1,
                   exit_info, ok, traps>>

\* sync_from_lower_el1_rust after the dispatcher: write the context's ELR and
\* register 0 back into the frame, flush the vGIC, return the verdict
sync_from_lower_el1_rust_finish ==
    /\ pc = "handle_vm_exit_done"
    /\ frame' = [frame EXCEPT ![31] = CurrentVcpu.context.elr_el2,
                              ![0] = CurrentVcpu.context.regs[0]]
    /\ LET f == flush(VGIC_CPU_STATES, lr, CurrentId)
       IN  /\ VGIC_CPU_STATES' = f.vgic
           /\ lr' = f.lr
    /\ pc' = "sync_return"
    /\ UNCHANGED hostvars
    /\ UNCHANGED <<VCPU_MANAGER, x, elr_el2, spsr_el2, esr_el2, vbar_el1,
                   exit_info, ok, traps>>

\* verdict resume: reload ELR_EL2, SPSR_EL2 and x0..x30 from the frame, eret
sync_from_lower_el1_eret ==
    /\ pc = "sync_return"
    /\ ok
    /\ elr_el2' = frame[31]
    /\ spsr_el2' = frame[32]
    /\ x' = [i \in 0..30 |-> frame[i]]
    /\ pc' = "guest"
    /\ UNCHANGED hostvars
    /\ UNCHANGED <<VCPU_MANAGER, VGIC_CPU_STATES, lr, esr_el2, vbar_el1, frame,
                   exit_info, ok, traps>>

\* variant: the trampoline ignores the verdict and returns to the guest
sync_from_lower_el1_park_erets ==
    /\ pc = "sync_return"
    /\ ~ok
    /\ pc' = "guest"
    /\ UNCHANGED hostvars
    /\ UNCHANGED <<VCPU_MANAGER, VGIC_CPU_STATES, lr, x, elr_el2, spsr_el2,
                   esr_el2, vbar_el1, frame, exit_info, ok, traps>>

\* variant: parking the core marks the vCPU Exited
sync_from_lower_el1_park_marks_exited ==
    /\ pc = "sync_return"
    /\ ~ok
    /\ pc' = "wfi_loop"
    /\ VCPU_MANAGER' = IF current_vcpu_id(VCPU_MANAGER) # None
                       THEN [VCPU_MANAGER EXCEPT !.vcpus[CurrentId][1].state = "Exited"]
                       ELSE VCPU_MANAGER
    /\ UNCHANGED hostvars
    /\ UNCHANGED <<VGIC_CPU_STATES, lr, x, elr_el2, spsr_el2,
                   esr_el2, vbar_el1, frame, exit_info, ok, traps>>

\* verdict terminate: 1: wfi; b 1b
sync_from_lower_el1_park ==
    /\ pc = "sync_return"
    /\ ~ok
    /\ pc' = "wfi_loop"
    /\ UNCHANGED hostvars
    /\ UNCHANGED <<VCPU_MANAGER, VGIC_CPU_STATES, lr, x, elr_el2, spsr_el2,
                   esr_el2, vbar_el1, frame, exit_info, ok, traps>>

\* the wait loop: wfi completes (an interrupt or event is pending; it is not
\* taken, exceptions stay masked since the trap was taken) ...
sync_from_lower_el1_wfi ==
    /\ pc = "wfi_loop"
    /\ pc' = "wfi_loop_b"
    /\ UNCHANGED hostvars
    /\ UNCHANGED <<VCPU_MANAGER, VGIC_CPU_STATES, lr, x, elr_el2, spsr_el2,
                   esr_el2, vbar_el1, frame, exit_info, ok, traps>>

\* ... and b 1b goes back to it
sync_from_lower_el1_b_1b ==
    /\ pc = "wfi_loop_b"
    /\ pc' = "wfi_loop"
    /\ UNCHANGED hostvars
    /\ UNCHANGED <<VCPU_MANAGER, VGIC_CPU_STATES, lr, x, elr_el2, spsr_el2,
                   esr_el2, vbar_el1, frame, exit_info, ok, traps>>

----------------------------------------------------------------------------
(* The exit path: a guest that run_vcpu has entered takes synchronous traps *)

\* the store after create_vcpu(cur, ...) and run_vcpu(cur)
RunningStore(cur) ==
    [vcpus |-> [i \in 0..3 |->
                  IF i = cur
                  THEN Some([Vcpu_new(cur, GuestEntry, GuestStackTop) EXCEPT
                               !.state = "Running"])
                  ELSE None],
     count |-> 1,
     current_vcpu |-> Some(cur)]

InitExit ==
    /\ pc = "guest"
    /\ \E cur \in {0, MAX_VCPUS - 1}, q \in QueueSamples :
         /\ VCPU_MANAGER = RunningStore(cur)
         /\ VGIC_CPU_STATES = [i \in 0..(MAX_VCPUS - 1) |-> IF i = cur THEN q ELSE Vgic_new]
    /\ vbar_el1 = Zero64
    /\ lr \in LrSamples
    /\ x = GuestRegs(Zero64)
    /\ elr_el2 = GuestEntry
    /\ spsr_el2 = U(\h3C5)
    /\ esr_el2 = Zero64
    /\ frame = NoFrame
    /\ exit_info = NoExit
    /\ ok = FALSE
    /\ traps = 0
    /\ ret = NoReturn
    /\ vgic_log = NoLog
    /\ call = NoCall

NextExit ==
    \/ TrapSync
    \/ sync_from_lower_el1_save
    \/ sync_from_lower_el1_rust_enter
    \/ HandleVmExit
    \/ sync_from_lower_el1_rust_finish
    \/ sync_from_lower_el1_eret
    \/ sync_from_lower_el1_park
    \/ sync_from_lower_el1_wfi
    \/ sync_from_lower_el1_b_1b

SpecExit == InitExit /\ [][NextExit]_vars

----------------------------------------------------------------------------
(* Classification alone: parse_exit_reason applied to one syndrome *)

VcpuManager_new ==
    [vcpus |-> [i \in 0..3 |-> None], count |-> 0, current_vcpu |-> None]

\* the bits of a syndrome outside [31:26]: <<bits 15:0, bits 25:16, bits 47:32, bits 63:48>>
EsrRestSamples ==
    {<<0, 0, 0, 0>>, <<0, 256, 0, 0>>, <<0, 512, 0, 0>>, <<3, 512, 0, 0>>,
     <<\hFFFF, 1023, 0, 0>>, <<0, 0, 1, 0>>, <<\h1234, 512, \hFFFF, \hFFFF>>}

EsrParseSamples ==
    {<<r[1], ec * 1024 + r[2], r[3], r[4]>> : ec \in 0..63, r \in EsrRestSamples}

InitParse ==
    /\ pc = "parse_exit_reason"
    /\ esr_el2 \in EsrParseSamples
    /\ VCPU_MANAGER = VcpuManager_new
    /\ VGIC_CPU_STATES = [i \in 0..(MAX_VCPUS - 1) |-> Vgic_new]
    /\ lr = [i \in 0..(MAX_LR - 1) |-> Zero64]
    /\ x = GuestRegs(Zero64)
    /\ elr_el2 = Zero64
    /\ spsr_el2 = Zero64
    /\ vbar_el1 = Zero64
    /\ frame = NoFrame
    /\ exit_info = NoExit
    /\ ok = FALSE
    /\ traps = 0
    /\ ret = NoReturn
    /\ vgic_log = NoLog
    /\ call = NoCall

ParseExitReason ==
    /\ pc = "parse_exit_reason"
    /\ exit_info' = [exit_info EXCEPT !.reason = parse_exit_reason(esr_el2),
                                      !.esr = esr_el2]
    /\ pc' = "parse_exit_reason_done"
    /\ UNCHANGED hostvars
    /\ UNCHANGED <<VCPU_MANAGER, VGIC_CPU_STATES, lr, x, elr_el2, spsr_el2,
                   esr_el2, vbar_el1, frame, ok, traps>>

NextParse == ParseExitReason

SpecParse == InitParse /\ [][NextParse]_vars

----------------------------------------------------------------------------
(* Vocabulary of the properties *)

\* bit k of a 64-bit word
Bit(w, k) == (w[(k \div 16) + 1] \div (2^(k % 16))) % 2

\* the number made of bits [31:26]
Bits31to26(w) ==
    Bit(w, 26) + 2 * Bit(w, 27) + 4 * Bit(w, 28) + 8 * Bit(w, 29)
    + 16 * Bit(w, 30) + 32 * Bit(w, 31)

\* the number made of bits [15:0]
Bits15to0(w) == w[1]

\* the classification the exception-class table prescribes
ClassOf(ec) ==
    IF ec = 22 THEN <<"Hvc">>
    ELSE IF ec = 21 THEN <<"Svc">>
    ELSE IF ec = 36 THEN <<"DataAbortLowerEL">>
    ELSE IF ec = 32 THEN <<"InstructionAbortLowerEL">>
    ELSE IF ec = 1 THEN <<"TrappedWfiWfe">>
    ELSE <<"Unknown", ec>>

Parsed == pc = "parse_exit_reason_done"

----------------------------------------------------------------------------
(* Properties of the exit dispatcher, under SpecExit *)

Ctx == CurrentVcpu.context
Queue == VGIC_CPU_STATES[CurrentId]

\* the step that runs handle_vm_exit
DispatchStep == pc = "handle_vm_exit" /\ pc' = "handle_vm_exit_done"
Dispatched == pc = "handle_vm_exit_done"

\* the syndrome is a hypervisor call with immediate n
IsHvc(n) == Bits31to26(esr_el2) = 22 /\ Bits15to0(esr_el2) = n
IsHvcCall == Bits31to26(esr_el2) = 22

\* a is one of the four largest 64-bit values, so that a + 4 needs 65 bits
Wraps4(a) == a[1] >= 65532 /\ a[2] = 65535 /\ a[3] = 65535 /\ a[4] = 65535

\* b = a + 4 modulo 2^64, limb by limb
Plus4(a, b) ==
    LET k1 == a[1] >= 65532
        k2 == k1 /\ a[2] = 65535
        k3 == k2 /\ a[3] = 65535
        inc(v, k) == IF k THEN (IF v = 65535 THEN 0 ELSE v + 1) ELSE v
    IN  /\ b[1] = (IF k1 THEN a[1] - 65532 ELSE a[1] + 4)
        /\ b[2] = inc(a[2], k1)
        /\ b[3] = inc(a[3], k2)
        /\ b[4] = inc(a[4], k3)

\* b = a + 4 as numbers
Plus4Exact(a, b) == Plus4(a, b) /\ ~Wraps4(a)

\* the store differs from its value before the step at most in the current
\* core's saved exception-return address
OnlyElrChanged ==
    VCPU_MANAGER' = [VCPU_MANAGER EXCEPT !.vcpus[CurrentId] =
                       Some([CurrentVcpu EXCEPT !.context.elr_el2 = Ctx'.elr_el2])]

\* C2: hypervisor call 2 yields terminate for every register state and saved
\* context, and changes neither saved register 0 nor the saved return address
C2_Hvc2Terminates ==
    [][(DispatchStep /\ IsHvc(2)) =>
         /\ ok' = FALSE
         /\ Ctx'.regs[0] = Ctx.regs[0]
         /\ Ctx'.elr_el2 = Ctx.elr_el2]_vars

C2_Witness ==
    /\ Dispatched /\ IsHvc(2) /\ ~ok
    /\ Ctx.regs[0] = U(\hAAAA)
    /\ Ctx.elr_el2 = frame[31]

\* C3 (as stated): hypervisor call 0 yields resume and leaves the saved return
\* address equal, as a number, to its value at entry plus 4, for every
\* 64-bit entry value
C3_AsStated ==
    [][(DispatchStep /\ IsHvc(0)) =>
         /\ ok' = TRUE
         /\ Plus4Exact(Ctx.elr_el2, Ctx'.elr_el2)]_vars

\* C3 (amended): hypervisor call 0 yields resume and leaves the saved return
\* address equal to its value at entry plus 4 modulo 2^64: plus exactly 4
\* unless the entry value is one of the four largest, where it wraps
C3_Hvc0Advances ==
    [][(DispatchStep /\ IsHvc(0)) =>
         /\ ok' = TRUE
         /\ Plus4(Ctx.elr_el2, Ctx'.elr_el2)
         /\ (~Wraps4(Ctx.elr_el2) => Plus4Exact(Ctx.elr_el2, Ctx'.elr_el2))]_vars

C3_Witness ==
    /\ Dispatched /\ IsHvc(0) /\ ok
    /\ frame[0] = U(\hEEEE)
    /\ frame[31] = W64(\hFFFF, \hFFFF, \hFFFF, \hFFFC)
    /\ Ctx.elr_el2 = Zero64

\* C4: an exit classified DataAbortLowerEL, InstructionAbortLowerEL or
\* Unknown yields terminate and leaves the saved context (and the rest of the
\* store) as it was
C4_AbortsTerminate ==
    [][(DispatchStep /\ exit_info'.reason[1] \in
            {"DataAbortLowerEL", "InstructionAbortLowerEL", "Unknown"}) =>
         /\ ok' = FALSE
         /\ VCPU_MANAGER' = VCPU_MANAGER]_vars

C4_Witness ==
    /\ Dispatched /\ ~ok
    /\ exit_info.reason = <<"DataAbortLowerEL">>
    /\ Bits15to0(esr_el2) = 7

\* C5: a supervisor call sets register 0 from its value at the call (0 gives
\* 0, 1 gives 1, anything else 0xFFFFFFFF), sets the saved return address to
\* the exit record's faulting address plus 4, and yields resume
C5_SvcDispatch ==
    [][(DispatchStep /\ exit_info'.reason = <<"Svc">>) =>
         /\ ok' = TRUE
         /\ Ctx'.regs[0] = (IF Ctx.regs[0] = Zero64 THEN Zero64
                            ELSE IF Ctx.regs[0] = U(1) THEN U(1)
                            ELSE W64(0, 0, \hFFFF, \hFFFF))
         /\ exit_info'.far = elr_el2
         /\ Plus4(exit_info'.far, Ctx'.elr_el2)]_vars

C5_Witness ==
    /\ Dispatched /\ ok
    /\ exit_info.reason = <<"Svc">>
    /\ frame[0] = U(\hEEEE)
    /\ Ctx.regs[0] = W64(0, 0, \hFFFF, \hFFFF)

\* C6: hypervisor call 1 sets saved register 0 to 0x48495001, advances the
\* saved return address by 4 and yields resume; after any other hypervisor
\* call saved register 0 equals its value at entry
C6_Hvc1Identifier ==
    [][(DispatchStep /\ IsHvcCall) =>
         /\ IsHvc(1) =>
              /\ ok' = TRUE
              /\ Ctx'.regs[0] = U(\h48495001)
              /\ Plus4(Ctx.elr_el2, Ctx'.elr_el2)
         /\ ~IsHvc(1) => Ctx'.regs[0] = Ctx.regs[0]]_vars

C6_Witness ==
    /\ Dispatched /\ IsHvc(1) /\ ok
    /\ Ctx.regs[0] = U(\h48495001)
    /\ frame[0] = U(\hEEEE)

\* C7: for a hypervisor call other than 1 and 2, saved register 0 keeps its
\* entry value, the saved return address advances by 4 and the verdict is
\* resume; for an undefined number (6 and above) nothing else changes
C7_OtherHvcFrame ==
    [][(DispatchStep /\ IsHvcCall /\ ~IsHvc(1) /\ ~IsHvc(2)) =>
         /\ ok' = TRUE
         /\ Ctx'.regs[0] = Ctx.regs[0]
         /\ Plus4(Ctx.elr_el2, Ctx'.elr_el2)
         /\ Bits15to0(esr_el2) >= 6 =>
              /\ OnlyElrChanged
              /\ VGIC_CPU_STATES' = VGIC_CPU_STATES
              /\ vbar_el1' = vbar_el1
              /\ lr' = lr]_vars

C7_Witness ==
    /\ Dispatched /\ IsHvc(\hFFFF) /\ ok
    /\ Ctx.regs[0] = U(\hEEEE)
    /\ Plus4(frame[31], Ctx.elr_el2)

\* C8: hypervisor call 3 sets the hardware vector base and its shadow in the
\* saved context to 0x48000800, appends interrupt 32 to the current core's
\* queue when the queue is not full (and leaves a full queue alone), advances
\* the saved return address by 4 and yields resume
C8_Hvc3Injects ==
    [][(DispatchStep /\ IsHvc(3)) =>
         /\ ok' = TRUE
         /\ Plus4(Ctx.elr_el2, Ctx'.elr_el2)
         /\ vbar_el1' = U(\h48000800)
         /\ Ctx'.vbar_el1 = U(\h48000800)
         /\ \A c \in 0..3 : c # CurrentId => VGIC_CPU_STATES'[c] = VGIC_CPU_STATES[c]
         /\ IF Queue.pending_count < 64
            THEN /\ Queue'.pending_count = Queue.pending_count + 1
                 /\ Queue'.pending_head = Queue.pending_head
                 /\ Queue'.pending_tail = (Queue.pending_tail + 1) % 64
                 /\ \A i \in 0..63 :
                      Queue'.pending_irqs[i] =
                        (IF i = Queue.pending_tail THEN 32 ELSE Queue.pending_irqs[i])
            ELSE Queue' = Queue]_vars

C8_Witness ==
    /\ Dispatched /\ IsHvc(3) /\ ok
    /\ CurrentId = 3
    /\ Queue.pending_count = 4
    /\ Queue.pending_tail = 0
    /\ Queue.pending_irqs[63] = 32
    /\ vbar_el1 = U(\h48000800)

\* interrupt id is pending for the current core: in the window of its queue,
\* or in a list register in Pending state
InQueue(id) ==
    \E k \in 0..63 :
        /\ k < Queue.pending_count
        /\ Queue.pending_irqs[(Queue.pending_head + k) % 64] = id
InListRegister(id) ==
    \E i \in 0..3 : lr[i][1] = id /\ lr[i][2] = 0 /\ Bit(lr[i], 62) = 1

\* C9 (as stated): after hypervisor call 4, interrupt 33 is pending for the
\* current core, in its queue or, once flushed, in a list register
C9_AsStated ==
    (pc \in {"handle_vm_exit_done", "sync_return"} /\ IsHvc(4)) =>
        (InQueue(33) \/ InListRegister(33))

\* C10: a TrappedWfiWfe exit advances the saved return address by 4, changes
\* nothing else of the store and yields resume, and the guest then resumes at
\* the address after the trapped instruction
C10_WfxSkipped ==
    /\ [][(DispatchStep /\ exit_info'.reason = <<"TrappedWfiWfe">>) =>
            /\ ok' = TRUE
            /\ Plus4(Ctx.elr_el2, Ctx'.elr_el2)
            /\ OnlyElrChanged]_vars
    /\ [][(pc = "sync_return" /\ exit_info.reason = <<"TrappedWfiWfe">>) =>
            /\ pc' = "guest"
            /\ Plus4(exit_info.far, elr_el2')]_vars

C10_Witness ==
    /\ pc = "guest" /\ traps > 0
    /\ exit_info.reason = <<"TrappedWfiWfe">>
    /\ exit_info.far = U(\h48000104)
    /\ elr_el2 = U(\h48000108)

----------------------------------------------------------------------------
(* vcpu.rs: the vCPU store as the host drives it *)

\* Result<&mut Vcpu, &'static str>: Ok refers to the slot that was filled
Ok(slot) == [kind |-> "Ok", slot |-> slot, msg |-> ""]
Err(msg) == [kind |-> "Err", slot |-> 0, msg |-> msg]
\* a call that returns ()
Unit == [kind |-> "Unit", slot |-> 0, msg |-> ""]

\* variant: the occupied-slot test comes before the count test
create_vcpu_slot_first(mgr, id, entry, stack_top) ==
    IF id >= 4 THEN [mgr |-> mgr, ret |-> Err("vCPU ID out of range (max 3)")]
    ELSE IF mgr.vcpus[id] # None
    THEN [mgr |-> mgr, ret |-> Err("vCPU ID already used")]
    ELSE IF mgr.count >= 4
    THEN [mgr |-> mgr, ret |-> Err("Reached max vCPU count")]
    ELSE [mgr |-> [mgr EXCEPT !.vcpus[id] = Some(Vcpu_new(id, entry, stack_top)),
                              !.count = mgr.count + 1],
          ret |-> Ok(id)]

\* variant: a successful creation also makes the new core current
create_vcpu_sets_current(mgr, id, entry, stack_top) ==
    IF id >= 4 THEN [mgr |-> mgr, ret |-> Err("vCPU ID out of range (max 3)")]
    ELSE IF mgr.count >= 4
    THEN [mgr |-> mgr, ret |-> Err("Reached max vCPU count")]
    ELSE IF mgr.vcpus[id] # None
    THEN [mgr |-> mgr, ret |-> Err("vCPU ID already used")]
    ELSE [mgr |-> [mgr EXCEPT !.vcpus[id] = Some(Vcpu_new(id, entry, stack_top)),
                              !.count = mgr.count + 1,
                              !.current_vcpu = Some(id)],
          ret |-> Ok(id)]

\* variant: an out-of-range id is reported as a full table
create_vcpu_range_as_full(mgr, id, entry, stack_top) ==
    IF id >= 4 THEN [mgr |-> mgr, ret |-> Err("Reached max vCPU count")]
    ELSE IF mgr.count >= 4
    THEN [mgr |-> mgr, ret |-> Err("Reached max vCPU count")]
    ELSE IF mgr.vcpus[id] # None
    THEN [mgr |-> mgr, ret |-> Err("vCPU ID already used")]
    ELSE [mgr |-> [mgr EXCEPT !.vcpus[id] = Some(Vcpu_new(id, entry, stack_top)),
                              !.count = mgr.count + 1],
          ret |-> Ok(id)]

\* variant: an occupied slot is overwritten by the new core
create_vcpu_replaces(mgr, id, entry, stack_top) ==
    IF id >= 4 THEN [mgr |-> mgr, ret |-> Err("vCPU ID out of range (max 3)")]
    ELSE IF mgr.count >= 4
    THEN [mgr |-> mgr, ret |-> Err("Reached max vCPU count")]
    ELSE IF mgr.vcpus[id] # None
    THEN [mgr |-> [mgr EXCEPT !.vcpus[id] = Some(Vcpu_new(id, entry, stack_top))],
          ret |-> Err("vCPU ID already used")]
    ELSE [mgr |-> [mgr EXCEPT !.vcpus[id] = Some(Vcpu_new(id, entry, stack_top)),
                              !.count = mgr.count + 1],
          ret |-> Ok(id)]

\* variant: a successful create does not count the new core
create_vcpu_uncounted(mgr, id, entry, stack_top) ==
    IF id >= 4 THEN [mgr |-> mgr, ret |-> Err("vCPU ID out of range (max 3)")]
    ELSE IF mgr.count >= 4
    THEN [mgr |-> mgr, ret |-> Err("Reached max vCPU count")]
    ELSE IF mgr.vcpus[id] # None
    THEN [mgr |-> mgr, ret |-> Err("vCPU ID already used")]
    ELSE [mgr |-> [mgr EXCEPT !.vcpus[id] = Some(Vcpu_new(id, entry, stack_top))],
          ret |-> Ok(id)]

create_vcpu(mgr, id, entry, stack_top) ==
    IF id >= 4 THEN [mgr |-> mgr, ret |-> Err("vCPU ID out of range (max 3)")]
    ELSE IF mgr.count >= 4
    THEN [mgr |-> mgr, ret |-> Err("Reached max vCPU count")]
    ELSE IF mgr.vcpus[id] # None
    THEN [mgr |-> mgr, ret |-> Err("vCPU ID already used")]
    ELSE [mgr |-> [mgr EXCEPT !.vcpus[id] = Some(Vcpu_new(id, entry, stack_top)),
                              !.count = mgr.count + 1],
          ret |-> Ok(id)]

\* variant: only a Stopped core may be entered
can_run_stopped_only(vcpu) == vcpu.state = "Stopped"

can_run(vcpu) == vcpu.state \in {"Stopped", "Paused", "Exited"}

\* Vcpu::run up to its asm block: the state field is all it changes
Vcpu_run(vcpu) == [vcpu EXCEPT !.state = "Running"]

\* `self.vcpus[vcpu_id]` on [Option<Vcpu>; 4]: the index is bounds-checked
IndexInBounds(id) == id < 4

\* ids the host presents: every slot, and one value past the table
IdSamples == 0..MAX_VCPUS

\* (entry, stack_top) pairs the host presents
EntryStackSamples ==
    {<<GuestEntry, GuestStackTop>>, <<U(\h40000000), U(\h41000000)>>}

VcpuStates == {"Stopped", "Running", "Paused", "Exited"}

\* VCPU_MANAGER.0.create_vcpu(id, entry, stack_top)
CreateVcpu ==
    /\ pc = "host"
    /\ \E id \in IdSamples, a \in EntryStackSamples :
         LET r == create_vcpu(VCPU_MANAGER, id, a[1], a[2]) IN
         /\ VCPU_MANAGER' = r.mgr
         /\ ret' = r.ret
         /\ call' = Call("create_vcpu", id, a[1], a[2])
    /\ UNCHANGED <<pc, VGIC_CPU_STATES, lr, x, elr_el2, spsr_el2, esr_el2,
                   vbar_el1, frame, exit_info, ok, traps, vgic_log>>

\* the slots whose core the host has moved out of Stopped
NotStopped(mgr) ==
    {i \in 0..(MAX_VCPUS - 1) : mgr.vcpus[i] # None /\ mgr.vcpus[i][1].state # "Stopped"}

\* VCPU_MANAGER.0.get_vcpu(id) followed by Vcpu::set_state(state)
SetState ==
    /\ pc = "host"
    /\ \E id \in 0..(MAX_VCPUS - 1), state \in VcpuStates :
         /\ get_vcpu(VCPU_MANAGER, id) # None
         /\ Cardinality(NotStopped(VCPU_MANAGER) \cup {id}) <= MaxNotStopped
         /\ VCPU_MANAGER' = [VCPU_MANAGER EXCEPT !.vcpus[id] =
                               Some([get_vcpu(VCPU_MANAGER, id)[1] EXCEPT !.state = state])]
         /\ call' = Call("set_state", id, Zero64, Zero64)
    /\ ret' = Unit
    /\ UNCHANGED <<pc, VGIC_CPU_STATES, lr, x, elr_el2, spsr_el2, esr_el2,
                   vbar_el1, frame, exit_info, ok, traps, vgic_log>>

\* VCPU_MANAGER.0.run_vcpu(vcpu_id) with vcpu_id past the table: the index panics
RunVcpuPanic ==
    /\ pc = "host"
    /\ \E id \in IdSamples :
         /\ ~IndexInBounds(id)
         /\ call' = Call("run_vcpu", id, Zero64, Zero64)
    /\ pc' = "panic"
    /\ UNCHANGED <<VCPU_MANAGER, VGIC_CPU_STATES, lr, x, elr_el2, spsr_el2, esr_el2,
                   vbar_el1, frame, exit_info, ok, traps, ret, vgic_log>>

\* run_vcpu on an empty slot, or on a core that cannot run: log and return
RunVcpuReturn ==
    /\ pc = "host"
    /\ \E id \in IdSamples :
         /\ IndexInBounds(id)
         /\ \/ VCPU_MANAGER.vcpus[id] = None
            \/ /\ VCPU_MANAGER.vcpus[id] # None
               /\ ~can_run(VCPU_MANAGER.vcpus[id][1])
         /\ call' = Call("run_vcpu", id, Zero64, Zero64)
    /\ ret' = Unit
    /\ UNCHANGED <<pc, VCPU_MANAGER, VGIC_CPU_STATES, lr, x, elr_el2, spsr_el2,
                   esr_el2, vbar_el1, frame, exit_info, ok, traps, vgic_log>>

\* run_vcpu on a core that can run: record it as current, Vcpu::run, eret
RunVcpuEnter ==
    /\ pc = "host"
    /\ \E id \in IdSamples :
         /\ IndexInBounds(id)
         /\ VCPU_MANAGER.vcpus[id] # None
         /\ can_run(VCPU_MANAGER.vcpus[id][1])
         /\ LET vcpu == Vcpu_run(VCPU_MANAGER.vcpus[id][1]) IN
            /\ VCPU_MANAGER' = [VCPU_MANAGER EXCEPT !.current_vcpu = Some(id),
                                                    !.vcpus[id] = Some(vcpu)]
            /\ elr_el2' = vcpu.context.elr_el2
            /\ spsr_el2' = vcpu.context.spsr
            /\ x' = vcpu.context.regs
         /\ call' = Call("run_vcpu", id, Zero64, Zero64)
    /\ pc' = "guest"
    /\ UNCHANGED <<VGIC_CPU_STATES, lr, esr_el2, vbar_el1, frame, exit_info, ok,
                   traps, ret, vgic_log>>

InitStore ==
    /\ pc = "host"
    /\ VCPU_MANAGER = VcpuManager_new
    /\ VGIC_CPU_STATES = [i \in 0..(MAX_VCPUS - 1) |-> Vgic_new]
    /\ lr = [i \in 0..(MAX_LR - 1) |-> Zero64]
    /\ x = [i \in 0..30 |-> Zero64]
    /\ elr_el2 = Zero64
    /\ spsr_el2 = Zero64
    /\ esr_el2 = Zero64
    /\ vbar_el1 = Zero64
    /\ frame = NoFrame
    /\ exit_info = NoExit
    /\ ok = FALSE
    /\ traps = 0
    /\ ret = NoReturn
    /\ vgic_log = NoLog
    /\ call = NoCall

NextStore ==
    \/ CreateVcpu
    \/ SetState
    \/ RunVcpuPanic
    \/ RunVcpuReturn
    \/ RunVcpuEnter

SpecStore == InitStore /\ [][NextStore]_vars

----------------------------------------------------------------------------
(* Property vocabulary for the store *)

\* impl Display for VcpuError: the message create_vcpu returns for each error
VcpuError_Display(e) ==
    CASE e = "IdOutOfRange" -> "vCPU ID out of range (max 3)"
      [] e = "MaxLimitReached" -> "Reached max vCPU count"
      [] e = "IdAlreadyUsed" -> "vCPU ID already used"
      [] e = "NotFound" -> "vCPU not found"
      [] e = "InvalidState" -> "vCPU state invalid for this operation"

\* the step is the host's call op(id, ...)
HostCalls(op) == pc = "host" /\ call'.op = op
\* the call made last failed with error e
Failed(e) == ret.kind = "Err" /\ ret.msg = VcpuError_Display(e)
Occupied(mgr) == {i \in 0..(MAX_VCPUS - 1) : mgr.vcpus[i] # None}
StoreUnchanged == VCPU_MANAGER' = VCPU_MANAGER

\* C11: create(id, ...) with id < 4, slot id empty and fewer than 4 occupied
\* slots succeeds, fills slot id only, raises the occupied count by exactly 1
\* and leaves every other slot and the current-core identity as they were
C11_CreateSucceeds ==
    [][(/\ HostCalls("create_vcpu")
        /\ call'.id < 4
        /\ VCPU_MANAGER.count < 4
        /\ VCPU_MANAGER.vcpus[call'.id] = None)
       => /\ ret' = Ok(call'.id)
          /\ VCPU_MANAGER'.vcpus[call'.id] # None
          /\ VCPU_MANAGER'.count = VCPU_MANAGER.count + 1
          /\ Occupied(VCPU_MANAGER') = Occupied(VCPU_MANAGER) \cup {call'.id}
          /\ \A i \in 0..(MAX_VCPUS - 1) :
               i # call'.id => VCPU_MANAGER'.vcpus[i] = VCPU_MANAGER.vcpus[i]
          /\ VCPU_MANAGER'.current_vcpu = VCPU_MANAGER.current_vcpu]_vars

C11_Witness ==
    /\ pc = "host" /\ call.op = "create_vcpu" /\ call.id = 2
    /\ ret = Ok(2)
    /\ VCPU_MANAGER.count = 3
    /\ Occupied(VCPU_MANAGER) = {0, 2, 3}

\* C12: create(id, ...) with id >= 4 fails with IdOutOfRange in every store
\* state and leaves the slot table, the count and the current core unchanged
C12_IdOutOfRange ==
    [][(HostCalls("create_vcpu") /\ call'.id >= 4)
       => /\ ret'.kind = "Err"
          /\ ret'.msg = VcpuError_Display("IdOutOfRange")
          /\ StoreUnchanged]_vars

C12_Witness ==
    /\ pc = "host" /\ call.op = "create_vcpu" /\ call.id = MAX_VCPUS
    /\ Failed("IdOutOfRange")
    /\ VCPU_MANAGER.count = 4

\* C13 (as stated): create(id, ...) with id < 4 on an occupied slot fails with
\* IdAlreadyUsed in every store state and leaves the store unchanged
C13_AsStated ==
    [][(/\ HostCalls("create_vcpu")
        /\ call'.id < 4
        /\ VCPU_MANAGER.vcpus[call'.id] # None)
       => /\ ret'.kind = "Err"
          /\ ret'.msg = VcpuError_Display("IdAlreadyUsed")
          /\ StoreUnchanged]_vars

\* C13 (amended): create(id, ...) with id < 4 on an occupied slot leaves the
\* store unchanged and fails: with IdAlreadyUsed while fewer than 4 slots
\* are occupied, with MaxLimitReached once all 4 are
C13_OccupiedSlot ==
    [][(/\ HostCalls("create_vcpu")
        /\ call'.id < 4
        /\ VCPU_MANAGER.vcpus[call'.id] # None)
       => /\ ret'.kind = "Err"
          /\ ret'.msg = (IF VCPU_MANAGER.count < 4
                         THEN VcpuError_Display("IdAlreadyUsed")
                         ELSE VcpuError_Display("MaxLimitReached"))
          /\ StoreUnchanged]_vars

C13_Witness ==
    /\ pc = "host" /\ call.op = "create_vcpu" /\ call.id = 1
    /\ Failed("IdAlreadyUsed")
    /\ VCPU_MANAGER.count = 2
    /\ VCPU_MANAGER.vcpus[1] # None
    /\ VCPU_MANAGER.vcpus[1][1].state = "Paused"
    /\ VCPU_MANAGER.vcpus[1][1].entry # call.entry

\* C14 (as stated): once 4 creations have succeeded, every further create,
\* for any id, fails with MaxLimitReached and leaves the store unchanged
C14_AsStated ==
    [][(HostCalls("create_vcpu") /\ VCPU_MANAGER.count = 4)
       => /\ ret'.kind = "Err"
          /\ ret'.msg = VcpuError_Display("MaxLimitReached")
          /\ StoreUnchanged]_vars

\* C14 (amended): once 4 creations have succeeded, every further create
\* leaves the store unchanged and fails: with MaxLimitReached for id < 4,
\* with IdOutOfRange for id >= 4
C14_FullTable ==
    [][(HostCalls("create_vcpu") /\ VCPU_MANAGER.count = 4)
       => /\ Occupied(VCPU_MANAGER) = 0..3
          /\ ret'.kind = "Err"
          /\ ret'.msg = (IF call'.id < 4
                         THEN VcpuError_Display("MaxLimitReached")
                         ELSE VcpuError_Display("IdOutOfRange"))
          /\ StoreUnchanged]_vars

C14_Witness ==
    /\ pc = "host" /\ call.op = "create_vcpu" /\ call.id = 0
    /\ Failed("MaxLimitReached")
    /\ VCPU_MANAGER.count = 4

\* C15: the core a successful create(id, entry, stack_top) returns has
\* identity id, state Stopped, saved return address entry, saved return
\* PSTATE 0x3C5, zero general registers, stack pointer and vector-base
\* shadow, and both request flags false
C15_NewCore ==
    [][(HostCalls("create_vcpu") /\ ret'.kind = "Ok")
       => LET vcpu == VCPU_MANAGER'.vcpus[ret'.slot][1] IN
          /\ ret'.slot = call'.id
          /\ VCPU_MANAGER.vcpus[ret'.slot] = None
          /\ vcpu.id = call'.id
          /\ vcpu.state = "Stopped"
          /\ vcpu.context.elr_el2 = call'.entry
          /\ vcpu.context.spsr = U(\h3C5)
          /\ \A i \in 0..30 : vcpu.context.regs[i] = Zero64
          /\ vcpu.context.sp = Zero64
          /\ vcpu.context.vbar_el1 = Zero64
          /\ vcpu.pending_irq = FALSE
          /\ vcpu.pending_fiq = FALSE]_vars

C15_Witness ==
    /\ pc = "host" /\ call.op = "create_vcpu" /\ ret = Ok(3)
    /\ call.entry = U(\h40000000)
    /\ VCPU_MANAGER.vcpus[3][1].context.elr_el2 = U(\h40000000)
    /\ VCPU_MANAGER.vcpus[3][1].context.spsr = U(\h3C5)

\* C16 (as stated): for every id, run(id) where no core is held returns to
\* the caller, transfers no privilege and leaves the store unchanged
C16_AsStated ==
    [][(/\ HostCalls("run_vcpu")
        /\ (call'.id < 4 => VCPU_MANAGER.vcpus[call'.id] = None))
       => /\ pc' = "host"
          /\ StoreUnchanged]_vars

\* C17: run(id) on an existing core records id as current, sets the core
\* Running and enters the guest exactly when the core is Stopped, Paused or
\* Exited; on a Running core it returns and changes nothing of the store
C17_RunWhenRunnable ==
    [][(/\ HostCalls("run_vcpu")
        /\ call'.id < 4
        /\ VCPU_MANAGER.vcpus[call'.id] # None)
       => LET old == VCPU_MANAGER.vcpus[call'.id][1] IN
          IF old.state \in {"Stopped", "Paused", "Exited"}
          THEN /\ pc' = "guest"
               /\ VCPU_MANAGER' =
                    [VCPU_MANAGER EXCEPT
                       !.current_vcpu = Some(call'.id),
                       !.vcpus[call'.id] = Some([old EXCEPT !.state = "Running"])]
               /\ elr_el2' = old.context.elr_el2
               /\ spsr_el2' = old.context.spsr
          ELSE /\ pc' = "host"
               /\ StoreUnchanged]_vars

C17_Witness ==
    /\ pc = "guest" /\ call.op = "run_vcpu" /\ call.id = 2
    /\ VCPU_MANAGER.current_vcpu = Some(2)
    /\ VCPU_MANAGER.vcpus[2][1].state = "Running"
    /\ VCPU_MANAGER.count = 3
    /\ elr_el2 = U(\h40000000)
    /\ spsr_el2 = U(\h3C5)

----------------------------------------------------------------------------
(* vgic.rs: one core's pending queue and the list registers, driven by     *)
(* inject and flush while the guest acknowledges and completes interrupts  *)

\* the k-th identifier presented to inject (k = 0, 1, ...): all distinct
IntidOf(k) == 32 + k

\* identifiers of the queue in arrival order, oldest first
RECURSIVE QueueContents(_, _)
QueueContents(vgic, k) ==
    IF k >= vgic.pending_count THEN <<>>
    ELSE <<vgic.pending_irqs[(vgic.pending_head + k) % MAX_PENDING]>>
         \o QueueContents(vgic, k + 1)

\* a well-formed queue of count distinct identifiers 200, 201, ... from head
QueueFrom(head, count) ==
    [pending_irqs |-> [i \in 0..(MAX_PENDING - 1) |->
                         LET k == (i + MAX_PENDING - head) % MAX_PENDING
                         IN  IF k < count THEN 200 + k ELSE 0],
     pending_count |-> count,
     pending_head |-> head,
     pending_tail |-> (head + count) % MAX_PENDING]

VgicQueueSamples ==
    {QueueFrom(0, 0), QueueFrom(MAX_PENDING - 2, 0), QueueFrom(MAX_PENDING - 2, 3),
     QueueFrom(7, MAX_PENDING)}

VgicLrSamples ==
    {[i \in 0..(MAX_LR - 1) |-> Zero64],
     [i \in 0..(MAX_LR - 1) |->
        IF i = 0 THEN LrActiveGroup1(27)
        ELSE IF i = 1 THEN LrPendingGroup1(30) ELSE Zero64]}

\* INTID field of a list register (bits 31:0)
LrIntid(v) == v[1] + 65536 * v[2]

\* identifiers the fill loop wrote, in the order of its index i
RECURSIVE WrittenBy(_, _, _)
WrittenBy(before, after, i) ==
    IF i >= MAX_LR THEN <<>>
    ELSE IF LrState(before[i]) = 0 /\ after[i] # before[i]
         THEN <<LrIntid(after[i])>> \o WrittenBy(before, after, i + 1)
         ELSE WrittenBy(before, after, i + 1)

\* vgic::inject(current core, intid), for the first max identifiers
Inject(max) ==
    /\ pc = "vgic"
    /\ vgic_log.injected < max
    /\ LET id == CurrentId
           intid == IntidOf(vgic_log.injected)
           states == inject(VGIC_CPU_STATES, id, intid)
       IN  /\ VGIC_CPU_STATES' = states
           /\ vgic_log' = [vgic_log EXCEPT
                             !.injected = @ + 1,
                             !.accepted = IF states # VGIC_CPU_STATES
                                          THEN Append(@, intid) ELSE @]
           /\ call' = Call("inject", id, Zero64, Zero64)
    /\ UNCHANGED <<pc, VCPU_MANAGER, lr, x, elr_el2, spsr_el2, esr_el2, vbar_el1,
                   frame, exit_info, ok, traps, ret>>

\* vgic::flush(current core)
Flush ==
    /\ pc = "vgic"
    /\ Len(vgic_log.written) < MaxWritten
    /\ LET id == CurrentId
           r == flush(VGIC_CPU_STATES, lr, id)
           cleared == ClearActive(lr, ICH_ELRSR(lr), 0)
       IN  /\ VGIC_CPU_STATES' = r.vgic
           /\ lr' = r.lr
           /\ vgic_log' = [vgic_log EXCEPT
                             !.written = @ \o WrittenBy(cleared, r.lr, 0)]
           /\ call' = Call("flush", id, Zero64, Zero64)
    /\ UNCHANGED <<pc, VCPU_MANAGER, x, elr_el2, spsr_el2, esr_el2, vbar_el1,
                   frame, exit_info, ok, traps, ret>>

\* the guest acknowledges the interrupt of a Pending list register: Active
GuestAcknowledge ==
    /\ pc = "vgic"
    /\ \E i \in 0..(MAX_LR - 1) :
         /\ LrState(lr[i]) = 1
         /\ lr' = [lr EXCEPT ![i] = LrActiveGroup1(LrIntid(lr[i]))]
         /\ call' = Call("guest", CurrentId, Zero64, Zero64)
    /\ UNCHANGED <<pc, VCPU_MANAGER, VGIC_CPU_STATES, x, elr_el2, spsr_el2, esr_el2,
                   vbar_el1, frame, exit_info, ok, traps, ret, vgic_log>>

\* the guest completes the interrupt of an Active list register: empty
GuestDeactivate ==
    /\ pc = "vgic"
    /\ \E i \in 0..(MAX_LR - 1) :
         /\ LrState(lr[i]) = 2
         /\ lr' = [lr EXCEPT ![i] = Zero64]
         /\ call' = Call("guest", CurrentId, Zero64, Zero64)
    /\ UNCHANGED <<pc, VCPU_MANAGER, VGIC_CPU_STATES, x, elr_el2, spsr_el2, esr_el2,
                   vbar_el1, frame, exit_info, ok, traps, ret, vgic_log>>

InitVgic ==
    /\ pc = "vgic"
    /\ \E cur \in {0, MAX_VCPUS - 1}, q \in VgicQueueSamples :
         /\ VCPU_MANAGER = RunningStore(cur)
         /\ VGIC_CPU_STATES = [i \in 0..(MAX_VCPUS - 1) |-> IF i = cur THEN q ELSE Vgic_new]
         /\ vgic_log = [accepted |-> QueueContents(q, 0), written |-> <<>>, injected |-> 0]
    /\ lr \in VgicLrSamples
    /\ x = GuestRegs(Zero64)
    /\ elr_el2 = GuestEntry
    /\ spsr_el2 = U(\h3C5)
    /\ esr_el2 = Zero64
    /\ vbar_el1 = Zero64
    /\ frame = NoFrame
    /\ exit_info = NoExit
    /\ ok = FALSE
    /\ traps = 0
    /\ ret = NoReturn
    /\ call = NoCall

NextVgic ==
    \/ Inject(MaxInterleaved)
    \/ Flush
    \/ GuestAcknowledge
    \/ GuestDeactivate

SpecVgic == InitVgic /\ [][NextVgic]_vars

\* injections alone, with no flush between them
NextInject == Inject(MaxInject)

SpecInject == InitVgic /\ [][NextInject]_vars

\* a queue whose indices were overwritten: head, tail and count are arbitrary
\* words, the ring holds identifiers 300, 301, ...
CorruptQueue(head, tail, count) ==
    [pending_irqs |-> [i \in 0..(MAX_PENDING - 1) |-> 300 + i],
     pending_count |-> count,
     pending_head |-> head,
     pending_tail |-> tail]

CorruptIndexSamples ==
    {<<MAX_PENDING, 0>>, <<0, MAX_PENDING>>, <<5, MAX_PENDING + 6>>,
     <<MAX_PENDING, MAX_PENDING>>, <<2147483647, 3>>}

CorruptCountSamples == {0, 3, MAX_PENDING, MAX_PENDING + 1}

CorruptQueueSamples ==
    {CorruptQueue(ht[1], ht[2], c) : ht \in CorruptIndexSamples,
                                     c \in CorruptCountSamples}

\* (3 << 62) | (1 << 60) | intid: a Pending-and-Active list register
LrPendingActiveGroup1(intid) == <<intid % 65536, intid \div 65536, 0, \hD000>>

\* list registers as flush can find them: cpu_init is never called, so what
\* they hold at the first flush is whatever was there, every state included
FlushLrSamples ==
    VgicLrSamples \cup
    {[i \in 0..(MAX_LR - 1) |->
        IF i = 0 THEN LrActiveGroup1(27)
        ELSE IF i = 1 THEN LrPendingGroup1(30)
        ELSE IF i = 2 THEN LrPendingActiveGroup1(29) ELSE Zero64]}

\* flush applied to queues with and without corrupted indices, the guest
\* acknowledging and completing what is in the list registers
InitFlush ==
    /\ pc = "vgic"
    /\ \E cur \in {0, MAX_VCPUS - 1},
          q \in CorruptQueueSamples \cup {QueueFrom(MAX_PENDING - 2, 3)} :
         /\ VCPU_MANAGER = RunningStore(cur)
         /\ VGIC_CPU_STATES = [i \in 0..(MAX_VCPUS - 1) |-> IF i = cur THEN q ELSE Vgic_new]
    /\ vgic_log = NoLog
    /\ lr \in FlushLrSamples
    /\ x = GuestRegs(Zero64)
    /\ elr_el2 = GuestEntry
    /\ spsr_el2 = U(\h3C5)
    /\ esr_el2 = Zero64
    /\ vbar_el1 = Zero64
    /\ frame = NoFrame
    /\ exit_info = NoExit
    /\ ok = FALSE
    /\ traps = 0
    /\ ret = NoReturn
    /\ call = NoCall

NextFlush ==
    \/ Flush
    \/ GuestAcknowledge
    \/ GuestDeactivate

SpecFlush == InitFlush /\ [][NextFlush]_vars

----------------------------------------------------------------------------
(* Property vocabulary for the vGIC *)

\* the step is a call of vgic::inject / vgic::flush on the current core
InjectStep == pc = "vgic" /\ call'.op = "inject"
FlushStep == pc = "vgic" /\ call'.op = "flush"
\* the flush follows an inject with nothing between them
InjectThenFlush == call.op = "inject" /\ FlushStep

Min(a, b) == IF a <= b THEN a ELSE b

\* list registers the hardware reports empty / that hold an Active interrupt
FreeSlots(lrs) == {i \in 0..(MAX_LR - 1) : LrState(lrs[i]) = 0}
ActiveSlots(lrs) == {i \in 0..(MAX_LR - 1) : LrState(lrs[i]) = 2}
\* the lowest-numbered member of a non-empty set of slots
Lowest(S) == CHOOSE i \in S : \A j \in S : i <= j

\* the 64-bit value (1 << 62) | (1 << 60) | id, as limbs
PendingGroup1Value(id) == <<id % 65536, id \div 65536, 0, 2^14 + 2^12>>

IsPrefix(u, v) == Len(u) <= Len(v) /\ \A k \in 1..Len(u) : u[k] = v[k]

\* C18: inject on a full queue changes nothing (count, head, tail, stored
\* identifiers, list registers) and returns; after 65 injections into an
\* empty queue with no flush the count is 64 and the queue holds the first 64
C18_FullQueueDrops ==
    /\ [][(InjectStep /\ Queue.pending_count >= MAX_PENDING)
          => /\ VGIC_CPU_STATES' = VGIC_CPU_STATES
             /\ lr' = lr
             /\ vgic_log'.accepted = vgic_log.accepted
             /\ pc' = "vgic"]_vars
    /\ [][InjectStep => Queue'.pending_head = Queue.pending_head]_vars
    /\ []((vgic_log.injected >= MAX_PENDING + 1 /\ vgic_log.written = <<>>
             /\ vgic_log.accepted # <<>> /\ vgic_log.accepted[1] = IntidOf(0))
          => /\ Queue.pending_count = MAX_PENDING
             /\ Queue.pending_tail = Queue.pending_head
             /\ QueueContents(Queue, 0) = [k \in 1..MAX_PENDING |-> IntidOf(k - 1)]
             /\ vgic_log.accepted = QueueContents(Queue, 0))

C18_Witness ==
    /\ pc = "vgic" /\ call.op = "inject"
    /\ vgic_log.injected = MAX_PENDING + 1
    /\ Len(vgic_log.accepted) = MAX_PENDING
    /\ vgic_log.accepted[1] = IntidOf(0)
    /\ Queue.pending_count = MAX_PENDING
    /\ Queue.pending_head = MAX_PENDING - 2
    /\ Queue.pending_irqs[Queue.pending_head] = IntidOf(0)
    /\ Queue.pending_irqs[MAX_PENDING - 3] = IntidOf(MAX_PENDING - 1)

\* C19 (as stated): whenever a list slot is free, inject followed by flush
\* lowers the pending count by exactly 1 across the flush, advances head by
\* 1 (mod 64) and puts the dequeued identifier, as (1<<62)|(1<<60)|id, in a
\* list register that was free before the flush
C19_AsStated ==
    [][(InjectThenFlush /\ FreeSlots(lr) # {})
       => /\ Queue'.pending_count = Queue.pending_count - 1
          /\ Queue'.pending_head = (Queue.pending_head + 1) % MAX_PENDING
          /\ \E i \in FreeSlots(lr) :
               lr'[i] = PendingGroup1Value(Queue.pending_irqs[Queue.pending_head])]_vars

\* C19 (amended): whenever a list slot is free, inject followed by flush
\* dequeues min(pending count, free or Active slots) identifiers, head
\* advancing by as many (mod 64); when the queue was empty before the inject
\* that is exactly 1, and the injected identifier is written, as
\* (1<<62)|(1<<60)|id, to the lowest-numbered slot that was free or Active
C19_InjectThenFlush ==
    [][(InjectThenFlush /\ FreeSlots(lr) # {})
       => LET usable == FreeSlots(lr) \cup ActiveSlots(lr)
              n == Min(Queue.pending_count, Cardinality(usable))
          IN  /\ Queue'.pending_count = Queue.pending_count - n
              /\ Queue'.pending_head = (Queue.pending_head + n) % MAX_PENDING
              /\ (/\ Queue.pending_count = 1
                  /\ Queue.pending_irqs[Queue.pending_head] = IntidOf(vgic_log.injected - 1))
                 => /\ Queue'.pending_count = 0
                    /\ Queue'.pending_head = (Queue.pending_head + 1) % MAX_PENDING
                    /\ lr'[Lowest(usable)] = PendingGroup1Value(IntidOf(vgic_log.injected - 1))
                    /\ \A i \in 0..(MAX_LR - 1) :
                         i # Lowest(usable) =>
                           lr'[i] = (IF i \in ActiveSlots(lr) THEN Zero64 ELSE lr[i])]_vars

C19_Witness ==
    /\ pc = "vgic" /\ call.op = "flush"
    /\ vgic_log.injected = 1
    /\ vgic_log.written = <<IntidOf(0)>>
    /\ Queue.pending_count = 0
    /\ Queue.pending_head = MAX_PENDING - 1
    /\ lr[0] = PendingGroup1Value(IntidOf(0))
    /\ lr[1] = PendingGroup1Value(30)

\* C20: the identifiers written to list registers, in write order, are a
\* prefix of the identifiers inject accepted, in arrival order, the rest
\* being exactly the queue; each flush dequeues min(free slots at the fill
\* loop, pending count) identifiers
C20_Fifo ==
    /\ [](IsPrefix(vgic_log.written, vgic_log.accepted))
    /\ [](vgic_log.accepted = vgic_log.written \o QueueContents(Queue, 0))
    /\ [][FlushStep
          => LET free == FreeSlots(ClearActive(lr, ICH_ELRSR(lr), 0))
                 n == Min(Cardinality(free), Queue.pending_count)
             IN  /\ Queue'.pending_count = Queue.pending_count - n
                 /\ Len(vgic_log'.written) = Len(vgic_log.written) + n
                 /\ Queue'.pending_head = (Queue.pending_head + n) % MAX_PENDING]_vars

C20_Witness ==
    /\ pc = "vgic" /\ call.op = "flush"
    /\ vgic_log.written = <<200, 201, 202, IntidOf(0)>>
    /\ vgic_log.accepted = <<200, 201, 202, IntidOf(0), IntidOf(1)>>
    /\ Queue.pending_head = 2
    /\ Queue.pending_count = 1
    /\ lr[3] = LrPendingGroup1(IntidOf(0))

----------------------------------------------------------------------------
(* vector.rs: a synchronous trap taken when the store names no usable core *)

\* stores for the lookup at the head of sync_from_lower_el1_rust: empty; a
\* created core that was never run; a current id whose slot is empty; and a
\* running core
LookupStoreSamples ==
    {VcpuManager_new,
     create_vcpu(VcpuManager_new, 0, GuestEntry, GuestStackTop).mgr,
     [create_vcpu(VcpuManager_new, 0, GuestEntry, GuestStackTop).mgr
        EXCEPT !.current_vcpu = Some(2)],
     RunningStore(0)}

InitLookup ==
    /\ pc = "guest"
    /\ VCPU_MANAGER \in LookupStoreSamples
    /\ \E q \in QueueSamples :
         VGIC_CPU_STATES = [i \in 0..(MAX_VCPUS - 1) |-> IF i = 0 THEN q ELSE Vgic_new]
    /\ vbar_el1 = Zero64
    /\ lr \in LrSamples
    /\ x = GuestRegs(Zero64)
    /\ elr_el2 = GuestEntry
    /\ spsr_el2 = U(\h3C5)
    /\ esr_el2 = Zero64
    /\ frame = NoFrame
    /\ exit_info = NoExit
    /\ ok = FALSE
    /\ traps = 0
    /\ ret = NoReturn
    /\ vgic_log = NoLog
    /\ call = NoCall

SpecLookup == InitLookup /\ [][NextExit]_vars

----------------------------------------------------------------------------
(* mod.rs, vector.rs: the guest's life from virt_start_guest on *)

\* vgic::cpu_init(vcpu_id): reset the core's queue indices, clear all list
\* registers.  Vcpu::run holds the only call, commented out.
cpu_init(states, lrs, vcpu_id) ==
    [vgic |-> IF vcpu_id < MAX_VCPUS
              THEN [states EXCEPT ![vcpu_id].pending_head = 0,
                                  ![vcpu_id].pending_tail = 0,
                                  ![vcpu_id].pending_count = 0]
              ELSE states,
     lr |-> [i \in 0..(MAX_LR - 1) |-> Zero64]]

\* virt_start_guest: VCPU_MANAGER.0.create_vcpu(0, entry, stack_top).expect(..)
virt_start_guest_create ==
    /\ pc = "host"
    /\ LET r == create_vcpu(VCPU_MANAGER, 0, GuestEntry, GuestStackTop) IN
         /\ VCPU_MANAGER' = r.mgr
         /\ ret' = r.ret
         /\ pc' = IF r.ret.kind = "Ok" THEN "virt_start_guest_run" ELSE "panic"
    /\ call' = Call("create_vcpu", 0, GuestEntry, GuestStackTop)
    /\ UNCHANGED <<VGIC_CPU_STATES, lr, x, elr_el2, spsr_el2, esr_el2, vbar_el1,
                   frame, exit_info, ok, traps, vgic_log>>

\* virt_start_guest: VCPU_MANAGER.0.run_vcpu(0), which ends in Vcpu::run's eret
virt_start_guest_run ==
    /\ pc = "virt_start_guest_run"
    /\ IF VCPU_MANAGER.vcpus[0] # None /\ can_run(VCPU_MANAGER.vcpus[0][1])
       THEN LET vcpu == Vcpu_run(VCPU_MANAGER.vcpus[0][1]) IN
            /\ VCPU_MANAGER' = [VCPU_MANAGER EXCEPT !.current_vcpu = Some(0),
                                                    !.vcpus[0] = Some(vcpu)]
            /\ elr_el2' = vcpu.context.elr_el2
            /\ spsr_el2' = vcpu.context.spsr
            /\ x' = vcpu.context.regs
            /\ pc' = "guest"
       ELSE /\ pc' = "host_returned"
            /\ UNCHANGED <<VCPU_MANAGER, elr_el2, spsr_el2, x>>
    /\ call' = Call("run_vcpu", 0, Zero64, Zero64)
    /\ UNCHANGED <<VGIC_CPU_STATES, lr, esr_el2, vbar_el1, frame, exit_info, ok,
                   traps, ret, vgic_log>>

\* variant: an IRQ is also taken while the Rust handler of a trap runs
TrapIrq_nested ==
    /\ pc \in {"guest", "handle_vm_exit_done"}
    /\ traps < MaxTraps + 1
    /\ elr_el2' \in ElrSamples
    /\ spsr_el2' \in SpsrSamples
    /\ pc' = "irq_from_lower_el1"
    /\ traps' = traps + 1
    /\ UNCHANGED hostvars
    /\ UNCHANGED <<VCPU_MANAGER, VGIC_CPU_STATES, lr, x, esr_el2, vbar_el1, frame,
                   exit_info, ok>>

\* a physical IRQ arrives while the guest runs: the hardware records the
\* return address and the PSTATE and enters the vector table
TrapIrq ==
    /\ pc = "guest"
    /\ traps < MaxTraps
    /\ elr_el2' \in ElrSamples
    /\ spsr_el2' \in SpsrSamples
    /\ pc' = "irq_from_lower_el1"
    /\ traps' = traps + 1
    /\ UNCHANGED hostvars
    /\ UNCHANGED <<VCPU_MANAGER, VGIC_CPU_STATES, lr, x, esr_el2, vbar_el1, frame,
                   exit_info, ok>>

\* irq_from_lower_el1: store x0..x30, ELR_EL2 and SPSR_EL2 into the frame
irq_from_lower_el1_save ==
    /\ pc = "irq_from_lower_el1"
    /\ frame' = [i \in 0..32 |->
                   IF i <= 30 THEN x[i] ELSE IF i = 31 THEN elr_el2 ELSE spsr_el2]
    /\ pc' = "trap_irq"
    /\ UNCHANGED hostvars
    /\ UNCHANGED <<VCPU_MANAGER, VGIC_CPU_STATES, lr, x, elr_el2, spsr_el2,
                   esr_el2, vbar_el1, exit_info, ok, traps>>

\* variant: trap_irq queues the timer interrupt for the current core
trap_irq_injects ==
    /\ pc = "trap_irq"
    /\ VGIC_CPU_STATES' = inject_irq(VCPU_MANAGER, VGIC_CPU_STATES, 27)
    /\ pc' = "irq_return"
    /\ UNCHANGED hostvars
    /\ UNCHANGED <<VCPU_MANAGER, lr, x, elr_el2, spsr_el2,
                   esr_el2, vbar_el1, frame, exit_info, ok, traps>>

\* trap_irq: logs and returns 0
trap_irq ==
    /\ pc = "trap_irq"
    /\ pc' = "irq_return"
    /\ UNCHANGED hostvars
    /\ UNCHANGED <<VCPU_MANAGER, VGIC_CPU_STATES, lr, x, elr_el2, spsr_el2,
                   esr_el2, vbar_el1, frame, exit_info, ok, traps>>

\* irq_from_lower_el1: reload ELR_EL2, SPSR_EL2 and x0..x30 from the frame, eret
irq_from_lower_el1_eret ==
    /\ pc = "irq_return"
    /\ elr_el2' = frame[31]
    /\ spsr_el2' = frame[32]
    /\ x' = [i \in 0..30 |-> frame[i]]
    /\ pc' = "guest"
    /\ UNCHANGED hostvars
    /\ UNCHANGED <<VCPU_MANAGER, VGIC_CPU_STATES, lr, esr_el2, vbar_el1, frame,
                   exit_info, ok, traps>>

\* a physical FIQ arrives while the guest runs
TrapFiq ==
    /\ pc = "guest"
    /\ traps < MaxTraps
    /\ elr_el2' \in ElrSamples
    /\ spsr_el2' \in SpsrSamples
    /\ pc' = "fiq_from_lower_el1"
    /\ traps' = traps + 1
    /\ UNCHANGED hostvars
    /\ UNCHANGED <<VCPU_MANAGER, VGIC_CPU_STATES, lr, x, esr_el2, vbar_el1, frame,
                   exit_info, ok>>

\* fiq_from_lower_el1: store x0..x30, ELR_EL2 and SPSR_EL2 into the frame
fiq_from_lower_el1_save ==
    /\ pc = "fiq_from_lower_el1"
    /\ frame' = [i \in 0..32 |->
                   IF i <= 30 THEN x[i] ELSE IF i = 31 THEN elr_el2 ELSE spsr_el2]
    /\ pc' = "trap_fiq"
    /\ UNCHANGED hostvars
    /\ UNCHANGED <<VCPU_MANAGER, VGIC_CPU_STATES, lr, x, elr_el2, spsr_el2,
                   esr_el2, vbar_el1, exit_info, ok, traps>>

\* trap_fiq: logs and returns 0
trap_fiq ==
    /\ pc = "trap_fiq"
    /\ pc' = "fiq_return"
    /\ UNCHANGED hostvars
    /\ UNCHANGED <<VCPU_MANAGER, VGIC_CPU_STATES, lr, x, elr_el2, spsr_el2,
                   esr_el2, vbar_el1, frame, exit_info, ok, traps>>

\* fiq_from_lower_el1: reload ELR_EL2 (SPSR_EL2 is not written) and x0..x30
\* from the frame, eret
fiq_from_lower_el1_eret ==
    /\ pc = "fiq_return"
    /\ elr_el2' = frame[31]
    /\ x' = [i \in 0..30 |-> frame[i]]
    /\ pc' = "guest"
    /\ UNCHANGED hostvars
    /\ UNCHANGED <<VCPU_MANAGER, VGIC_CPU_STATES, lr, spsr_el2, esr_el2, vbar_el1,
                   frame, exit_info, ok, traps>>

\* hypervisor_vectors: the handler of the entry at offset n * 0x80 is element
\* n + 1: current level SP0, current level SPx, lower level AArch64, lower
\* level AArch32, each with Sync, IRQ, FIQ, SError
hypervisor_vectors ==
    <<"sync_current_sp0", "irq_current", "fiq_current", "serror_current",
      "sync_current_spx", "irq_current", "fiq_current", "serror_current",
      "sync_from_lower_el1", "irq_from_lower_el1", "fiq_from_lower_el1",
      "serror_from_lower_el1",
      "sync_current_spx", "irq_current", "fiq_current", "serror_current">>

\* the handlers that log and then `loop { asm!("wfi"); }`
ParkingHandlers ==
    {"sync_current_sp0", "sync_current_spx", "irq_current", "fiq_current",
     "serror_current"}

\* an address in the hypervisor's text and the PSTATE of EL2h with DAIF set
HypElrSamples == {U(\h40081000)}
HypSpsrSamples == {U(\h3C9)}
\* what a compiled Rust call may leave in the caller-saved registers
ClobberSamples == {U(\hC10B)}

\* a physical SError arrives while the guest runs (HCR_EL2.AMO routes it to
\* EL2): entry 11 of the table
TrapSError ==
    /\ pc = "guest"
    /\ traps < MaxTraps
    /\ elr_el2' \in ElrSamples
    /\ spsr_el2' \in SpsrSamples
    /\ pc' = hypervisor_vectors[11 + 1]
    /\ traps' = traps + 1
    /\ UNCHANGED hostvars
    /\ UNCHANGED <<VCPU_MANAGER, VGIC_CPU_STATES, lr, x, esr_el2, vbar_el1, frame,
                   exit_info, ok>>

\* serror_from_lower_el1: an ordinary function that logs and executes eret.
\* Nothing was saved: x0..x18 and x30 hold what the call of the logger left.
serror_from_lower_el1 ==
    /\ pc = "serror_from_lower_el1"
    /\ \/ x' = x
       \/ \E c \in ClobberSamples :
            x' = [i \in 0..30 |-> IF i <= 18 \/ i = 30 THEN c ELSE x[i]]
    /\ pc' = "guest"
    /\ UNCHANGED hostvars
    /\ UNCHANGED <<VCPU_MANAGER, VGIC_CPU_STATES, lr, elr_el2, spsr_el2, esr_el2,
                   vbar_el1, frame, exit_info, ok, traps>>

\* an exception is taken at EL2 while a Rust handler runs: one of the entries
\* 0..7 of the table; the hardware overwrites ELR_EL2 and SPSR_EL2
TrapCurrent ==
    /\ pc \in {"handle_vm_exit", "trap_irq", "trap_fiq"}
    /\ \E n \in 0..7 : pc' = hypervisor_vectors[n + 1]
    /\ elr_el2' \in HypElrSamples
    /\ spsr_el2' \in HypSpsrSamples
    /\ UNCHANGED hostvars
    /\ UNCHANGED <<VCPU_MANAGER, VGIC_CPU_STATES, lr, x, esr_el2, vbar_el1, frame,
                   exit_info, ok, traps>>

\* sync_current_sp0 .. serror_current: log, then enter the loop
current_el_handler ==
    /\ pc \in ParkingHandlers
    /\ pc' = "loop_wfi"
    /\ UNCHANGED hostvars
    /\ UNCHANGED <<VCPU_MANAGER, VGIC_CPU_STATES, lr, x, elr_el2, spsr_el2,
                   esr_el2, vbar_el1, frame, exit_info, ok, traps>>

\* loop { asm!("wfi"); }: wfi completes ...
current_el_wfi ==
    /\ pc = "loop_wfi"
    /\ pc' = "loop_wfi_b"
    /\ UNCHANGED hostvars
    /\ UNCHANGED <<VCPU_MANAGER, VGIC_CPU_STATES, lr, x, elr_el2, spsr_el2,
                   esr_el2, vbar_el1, frame, exit_info, ok, traps>>

\* ... and the loop branches back to it
current_el_loop ==
    /\ pc = "loop_wfi_b"
    /\ pc' = "loop_wfi"
    /\ UNCHANGED hostvars
    /\ UNCHANGED <<VCPU_MANAGER, VGIC_CPU_STATES, lr, x, elr_el2, spsr_el2,
                   esr_el2, vbar_el1, frame, exit_info, ok, traps>>

\* the machine when virt_start_guest is called: the statics as initialised,
\* the list registers with whatever the reset or the firmware left in them
InitGuest ==
    /\ pc = "host"
    /\ VCPU_MANAGER = VcpuManager_new
    /\ VGIC_CPU_STATES = [i \in 0..(MAX_VCPUS - 1) |-> Vgic_new]
    /\ lr \in LrSamples
    /\ x = [i \in 0..30 |-> Zero64]
    /\ elr_el2 = Zero64
    /\ spsr_el2 = Zero64
    /\ esr_el2 = Zero64
    /\ vbar_el1 = Zero64
    /\ frame = NoFrame
    /\ exit_info = NoExit
    /\ ok = FALSE
    /\ traps = 0
    /\ ret = NoReturn
    /\ vgic_log = NoLog
    /\ call = NoCall

NextGuest ==
    \/ virt_start_guest_create
    \/ virt_start_guest_run
    \/ TrapSync
    \/ sync_from_lower_el1_save
    \/ sync_from_lower_el1_rust_enter
    \/ HandleVmExit
    \/ sync_from_lower_el1_rust_finish
    \/ sync_from_lower_el1_eret
    \/ sync_from_lower_el1_park
    \/ sync_from_lower_el1_wfi
    \/ sync_from_lower_el1_b_1b
    \/ TrapIrq
    \/ irq_from_lower_el1_save
    \/ trap_irq
    \/ irq_from_lower_el1_eret
    \/ TrapFiq
    \/ fiq_from_lower_el1_save
    \/ trap_fiq
    \/ fiq_from_lower_el1_eret
    \/ TrapSError
    \/ serror_from_lower_el1
    \/ TrapCurrent
    \/ current_el_handler
    \/ current_el_wfi
    \/ current_el_loop

SpecGuest == InitGuest /\ [][NextGuest]_vars

----------------------------------------------------------------------------
(* vcpu.rs: the context accessors and the context switch primitives *)

\* &self.context
context(vcpu) == vcpu.context

\* variant: the write lands in every general register of the context
context_mut_write_reg_all(vcpu, i, v) ==
    [vcpu EXCEPT !.context.regs = [j \in 0..30 |-> v]]

\* vcpu.context_mut().regs[i] = v
context_mut_write_reg(vcpu, i, v) == [vcpu EXCEPT !.context.regs[i] = v]

\* save_context on a core whose registers are regs_hw.  The first asm block
\* copies x0 into the register k the compiler gave its output operand; the
\* second has x0 = regs_addr, the address of context.regs, and stores x1..x30
\* as they are by then.  Returns the vCPU and the general registers afterwards.
save_context(vcpu, regs_hw, elr, sp, daif, spsr, vbar, regs_addr, k) ==
    LET x0_value == regs_hw[0]
        x1 == [regs_hw EXCEPT ![k] = x0_value]
    IN  [vcpu |-> [vcpu EXCEPT
                     !.context.regs = [i \in 0..30 |->
                                         IF i = 0 THEN x0_value ELSE x1[i]],
                     !.context.elr_el2 = elr,
                     !.context.sp = sp,
                     !.context.pstate = daif,
                     !.context.spsr = spsr,
                     !.context.vbar_el1 = vbar],
         x |-> [x1 EXCEPT ![0] = regs_addr]]

\* restore_context: SP and VBAR_EL1 are written from the context (ELR and SPSR
\* are not: those writes are commented out), x1..x30 are loaded, then regs[0]
\* goes through the register k of the last block's input operand into x0.
\* Returns the general registers, SP and VBAR_EL1 afterwards.
restore_context(vcpu, k) ==
    [x |-> [i \in 0..30 |->
              IF i = 0 \/ i = k THEN vcpu.context.regs[0]
              ELSE vcpu.context.regs[i]],
     sp |-> vcpu.context.sp,
     vbar_el1 |-> vcpu.context.vbar_el1]

\* registers the compiler may give to an `out(reg)` / `in(reg)` operand
OperandRegSamples == {0, 8, 9}
\* the hypervisor's stack pointer and the address of context.regs
HypSpSamples == {U(\h40080000)}
RegsAddrSamples == {U(\h40100010)}
VbarSamples == {Zero64, U(\h48000800)}
ValueSamples == {U(\h12345678), W64(\hFFFF, \hFFFF, \hFFFF, \hFFFF)}

\* vcpu.save_context(); vcpu.restore_context(); on vCPU 0, nothing between
SaveThenRestore ==
    /\ pc = "host"
    /\ \E k1 \in OperandRegSamples, k2 \in OperandRegSamples,
          sp \in HypSpSamples, a \in RegsAddrSamples :
         LET s == save_context(VCPU_MANAGER.vcpus[0][1], x, elr_el2, sp, U(\h3C0),
                               spsr_el2, vbar_el1, a, k1)
             r == restore_context(s.vcpu, k2)
         IN  /\ VCPU_MANAGER' = [VCPU_MANAGER EXCEPT !.vcpus[0] = Some(s.vcpu)]
             /\ x' = r.x
             /\ vbar_el1' = r.vbar_el1
    /\ call' = Call("save_context;restore_context", 0, Zero64, Zero64)
    /\ pc' = "restored"
    /\ UNCHANGED <<VGIC_CPU_STATES, lr, elr_el2, spsr_el2, esr_el2, frame,
                   exit_info, ok, traps, ret, vgic_log>>

\* vcpu.context_mut().regs[i] = v on vCPU 0
ContextWrite ==
    /\ pc = "host"
    /\ \E i \in 0..30, v \in ValueSamples :
         /\ VCPU_MANAGER' =
              [VCPU_MANAGER EXCEPT !.vcpus[0] =
                 Some(context_mut_write_reg(VCPU_MANAGER.vcpus[0][1], i, v))]
         /\ call' = Call("context_mut", i, v, Zero64)
    /\ pc' = "written"
    /\ UNCHANGED <<VGIC_CPU_STATES, lr, x, elr_el2, spsr_el2, esr_el2, vbar_el1,
                   frame, exit_info, ok, traps, ret, vgic_log>>

\* a store holding the core of test_vcpu_context_access, on a physical core
\* whose registers hold arbitrary values
InitContext ==
    /\ pc = "host"
    /\ VCPU_MANAGER =
         create_vcpu(VcpuManager_new, 0, U(\h40000000), U(\h41000000)).mgr
    /\ VGIC_CPU_STATES = [i \in 0..(MAX_VCPUS - 1) |-> Vgic_new]
    /\ lr = [i \in 0..(MAX_LR - 1) |-> Zero64]
    /\ \E x0 \in X0Samples : x = GuestRegs(x0)
    /\ elr_el2 \in ElrSamples
    /\ spsr_el2 \in {U(\h5), U(\h3C5)}
    /\ vbar_el1 \in VbarSamples
    /\ esr_el2 = Zero64
    /\ frame = NoFrame
    /\ exit_info = NoExit
    /\ ok = FALSE
    /\ traps = 0
    /\ ret = NoReturn
    /\ vgic_log = NoLog
    /\ call = NoCall

NextContext ==
    \/ SaveThenRestore
    \/ ContextWrite

SpecContext == InitContext /\ [][NextContext]_vars

----------------------------------------------------------------------------
(* Properties of the trap path: flush, verdict, resume *)

\* the trampoline is between the call of the Rust handler and its return
InHandler ==
    pc \in {"sync_from_lower_el1_rust", "handle_vm_exit", "handle_vm_exit_done",
            "sync_return"}
\* the step that ends sync_from_lower_el1_rust after a dispatch
FinishStep == pc = "handle_vm_exit_done" /\ pc' = "sync_return"
\* the exception return into the guest
EretStep == pc = "sync_return" /\ pc' = "guest"
\* the wait loop of the terminate verdict
Parked == pc \in {"wfi_loop", "wfi_loop_b"}
\* nothing is left for a flush to do: no list register is Active, and the
\* queue is empty or no list register is free
Flushed(q, lrs) ==
    /\ ActiveSlots(lrs) = {}
    /\ q.pending_count = 0 \/ FreeSlots(lrs) = {}
\* a list register holds id in Pending state, Group 1
PendingInLr(lrs, id) == \E i \in 0..(MAX_LR - 1) : lrs[i] = PendingGroup1Value(id)

\* C21: on a synchronous trap that was dispatched, the step after the
\* dispatcher's return is the vGIC flush of the exiting core, for the verdict
\* resume and for the verdict terminate alike; the dispatcher itself leaves the
\* list registers alone; the exception return and the wait loop are entered
\* only after that step, with the flush's result in place
C21_FlushBeforeVerdict ==
    /\ [][DispatchStep => lr' = lr]_vars
    /\ [][Dispatched =>
            /\ pc' = "sync_return"
            /\ ok' = ok
            /\ VGIC_CPU_STATES' = flush(VGIC_CPU_STATES, lr, CurrentId).vgic
            /\ lr' = flush(VGIC_CPU_STATES, lr, CurrentId).lr
            /\ Flushed(Queue', lr')]_vars
    /\ [][(pc' = "guest" \/ (pc' = "wfi_loop" /\ ~Parked)) =>
            /\ pc = "sync_return"
            /\ lr' = lr
            /\ VGIC_CPU_STATES' = VGIC_CPU_STATES]_vars

C21_Witness ==
    /\ pc = "wfi_loop"
    /\ ~ok
    /\ exit_info # NoExit
    /\ lr[0] = PendingGroup1Value(40)
    /\ lr[2] = PendingGroup1Value(42)
    /\ Queue.pending_count = 0
    /\ Queue.pending_head = (MAX_PENDING - 1)

\* C23: once the dispatcher has returned terminate, every later step keeps the
\* core on the way to, or inside, the wait loop: the verdict stays terminate,
\* no step goes to the guest or into a trap handler, no trap is counted, and
\* the guest's registers and return address are not reloaded
C23_TerminationFinal ==
    [][((pc \in {"handle_vm_exit_done", "sync_return"} /\ ~ok) \/ Parked) =>
          /\ pc' \in {"sync_return", "wfi_loop", "wfi_loop_b"}
          /\ ~ok'
          /\ traps' = traps
          /\ x' = x /\ elr_el2' = elr_el2 /\ spsr_el2' = spsr_el2]_vars

C23_Witness ==
    /\ pc = "wfi_loop_b"
    /\ ~ok
    /\ traps = 1
    /\ exit_info.reason = <<"DataAbortLowerEL">>

C27_ResumeState ==
    /\ [](InHandler =>
            /\ \A i \in 1..30 : frame[i] = x[i]
            /\ frame[32] = spsr_el2
            /\ frame[32] = (IF pc \in {"handle_vm_exit_done", "sync_return"}
                               /\ exit_info # NoExit
                            THEN exit_info.pstate ELSE frame[32]))
    /\ [][EretStep =>
            /\ ok
            /\ x'[0] = Ctx.regs[0]
            /\ elr_el2' = Ctx.elr_el2
            /\ \A i \in 1..30 : x'[i] = frame[i] /\ x'[i] = x[i]
            /\ spsr_el2' = frame[32] /\ spsr_el2' = spsr_el2]_vars

C27_Witness ==
    /\ pc = "guest"
    /\ traps = 1
    /\ IsHvc(1) /\ ok
    /\ x[0] = U(\h48495001)
    /\ elr_el2 = exit_info.return_addr
    /\ elr_el2 = Ctx.elr_el2
    /\ x[30] = U(\h1000 + 30)
    /\ spsr_el2 = exit_info.pstate

----------------------------------------------------------------------------
(* Properties of flush: Active list registers, corrupted queue indices *)

\* C28: a flush (of a core the table has) leaves no list register Active:
\* each one that was Active is empty afterwards or holds a Pending interrupt
\* taken from the queue; the clearing comes before the filling, so a slot that
\* was free or Active stays empty only when the queue ran out; list registers
\* that were Pending are not touched
C28_NoActiveAfterFlush ==
    [][FlushStep =>
         /\ ActiveSlots(lr') = {}
         /\ \A i \in ActiveSlots(lr) :
              \/ lr'[i] = Zero64
              \/ \E k \in 0..(MAX_PENDING - 1) :
                   /\ k < Queue.pending_count
                   /\ lr'[i] = PendingGroup1Value(
                         Queue.pending_irqs[(Queue.pending_head + k) % MAX_PENDING])
         /\ \A i \in FreeSlots(lr) \cup ActiveSlots(lr) :
              lr'[i] = Zero64 => Queue'.pending_count = 0
         /\ \A i \in 0..(MAX_LR - 1) :
              i \notin (FreeSlots(lr) \cup ActiveSlots(lr)) => lr'[i] = lr[i]]_vars

C28_Witness ==
    /\ call.op = "flush"
    /\ lr[0] = PendingGroup1Value(200)
    /\ lr[1] = PendingGroup1Value(30)
    /\ lr[2] = PendingGroup1Value(201)
    /\ vgic_log.written = <<200, 201, 202>>

\* C29: a flush that finds head or tail at 64 or above sets head, tail and
\* count to 0, dequeues nothing and writes no identifier into a list register:
\* the only list registers that change are Active ones, which become empty
C29_CorruptQueueReset ==
    [][(FlushStep /\ (Queue.pending_head >= 64 \/ Queue.pending_tail >= 64)) =>
         /\ Queue'.pending_head = 0
         /\ Queue'.pending_tail = 0
         /\ Queue'.pending_count = 0
         /\ Queue'.pending_irqs = Queue.pending_irqs
         /\ vgic_log'.written = vgic_log.written
         /\ \A i \in 0..(MAX_LR - 1) :
              \/ lr'[i] = lr[i]
              \/ i \in ActiveSlots(lr) /\ lr'[i] = Zero64
         /\ \A i \in 0..(MAX_LR - 1), k \in 0..(MAX_PENDING - 1) :
              lr'[i] # PendingGroup1Value(Queue.pending_irqs[k])]_vars

C29_Witness ==
    /\ call.op = "flush"
    /\ Queue.pending_irqs[0] = 300
    /\ Queue.pending_head = 0 /\ Queue.pending_tail = 0 /\ Queue.pending_count = 0
    /\ lr[0] = Zero64
    /\ lr[1] = PendingGroup1Value(30)
    /\ vgic_log.written = <<>>

----------------------------------------------------------------------------
(* Properties of the context accessors and the context switch primitives *)

RoundTripStep == pc = "host" /\ pc' = "restored"
ContextWriteStep == pc = "host" /\ pc' = "written"
\* the core the context operations act on
Vcpu0 == VCPU_MANAGER.vcpus[0][1]

\* C22 (as stated): save_context followed at once by restore_context leaves
\* x0..x30, ELR_EL2, SPSR_EL2 and VBAR_EL1 as they were before save_context
C22_AsStated ==
    [][RoundTripStep =>
         /\ x' = x
         /\ elr_el2' = elr_el2
         /\ spsr_el2' = spsr_el2
         /\ vbar_el1' = vbar_el1]_vars

\* what the round trip does keep: ELR_EL2, SPSR_EL2, VBAR_EL1, and every
\* general register that is not x0 or an operand register of the asm blocks
C22_RoundTripKeeps ==
    [][RoundTripStep =>
         /\ elr_el2' = elr_el2
         /\ spsr_el2' = spsr_el2
         /\ vbar_el1' = vbar_el1
         /\ \A i \in 1..30 : i \notin OperandRegSamples => x'[i] = x[i]]_vars

\* C24: after vcpu.context_mut().regs[i] = v, vcpu.context().regs[i] is v, and
\* every other register of the context, its return address, stack pointer,
\* PSTATE fields and vector base, the core's id, state, entry, stack top and
\* pending flags, and the rest of the store are what they were
C24_ContextAccess ==
    [][ContextWriteStep =>
         LET i == call'.id
             v == call'.entry
         IN  /\ context(Vcpu0').regs[i] = v
             /\ \A j \in 0..30 : j # i =>
                   context(Vcpu0').regs[j] = context(Vcpu0).regs[j]
             /\ context(Vcpu0').elr_el2 = context(Vcpu0).elr_el2
             /\ context(Vcpu0').sp = context(Vcpu0).sp
             /\ context(Vcpu0').pstate = context(Vcpu0).pstate
             /\ context(Vcpu0').spsr = context(Vcpu0).spsr
             /\ context(Vcpu0').vbar_el1 = context(Vcpu0).vbar_el1
             /\ Vcpu0'.id = Vcpu0.id
             /\ Vcpu0'.state = Vcpu0.state
             /\ Vcpu0'.entry = Vcpu0.entry
             /\ Vcpu0'.stack_top = Vcpu0.stack_top
             /\ Vcpu0'.pending_irq = Vcpu0.pending_irq
             /\ Vcpu0'.pending_fiq = Vcpu0.pending_fiq
             /\ \A c \in 1..3 : VCPU_MANAGER'.vcpus[c] = VCPU_MANAGER.vcpus[c]
             /\ VCPU_MANAGER'.count = VCPU_MANAGER.count
             /\ VCPU_MANAGER'.current_vcpu = VCPU_MANAGER.current_vcpu]_vars

C24_Witness ==
    /\ pc = "written"
    /\ call = Call("context_mut", 0, U(\h12345678), Zero64)
    /\ context(Vcpu0).regs[0] = U(\h12345678)
    /\ context(Vcpu0).regs[1] = Zero64
    /\ context(Vcpu0).elr_el2 = U(\h40000000)
    /\ Vcpu0.state = "Stopped"

----------------------------------------------------------------------------
(* Properties of the guest entries: first run, resume after a trap *)

\* a step that enters or re-enters the guest
GuestEntryStep == pc # "guest" /\ pc' = "guest"
\* the first entry, by Vcpu::run
FirstRunStep == pc = "virt_start_guest_run" /\ pc' = "guest"

\* C26 (as stated): every step that enters or re-enters the guest is taken
\* from the state the vGIC flush of the current core has just produced, that
\* is from the return of sync_from_lower_el1_rust after a dispatch, where
\* nothing is left for a flush to do
C26_AsStated ==
    [][GuestEntryStep =>
         /\ pc = "sync_return"
         /\ exit_info # NoExit
         /\ Flushed(Queue', lr')]_vars

\* what does hold: a resume after a synchronous trap comes after the flush
C26_SyncResumeFlushed ==
    [][(GuestEntryStep /\ pc = "sync_return") =>
         /\ exit_info # NoExit
         /\ Flushed(Queue', lr')]_vars

\* C30 (as stated): the first entry of a Stopped core leaves the vGIC as
\* cpu_init makes it: the core's queue empty with head = tail = count = 0
\* and all 4 list registers zero
C30_AsStated ==
    [][FirstRunStep =>
         /\ VGIC_CPU_STATES' = cpu_init(VGIC_CPU_STATES, lr, 0).vgic
         /\ lr' = cpu_init(VGIC_CPU_STATES, lr, 0).lr
         /\ Queue'.pending_head = 0
         /\ Queue'.pending_tail = 0
         /\ Queue'.pending_count = 0
         /\ \A i \in 0..(MAX_LR - 1) : lr'[i] = Zero64]_vars

\* what does hold at the first entry: the queue is empty, as the static
\* initialiser left it
C30_QueueEmptyAtFirstRun ==
    [][FirstRunStep =>
         /\ Queue'.pending_head = 0
         /\ Queue'.pending_tail = 0
         /\ Queue'.pending_count = 0]_vars

----------------------------------------------------------------------------
(* Properties of the trap path: the anchor of the resume address, the lookup *)

\* the store names no usable current core
NoCurrentVcpu ==
    \/ VCPU_MANAGER.current_vcpu = None
    \/ VCPU_MANAGER.vcpus[VCPU_MANAGER.current_vcpu[1]] = None

\* C39: at the dispatch of a supervisor call the record's faulting address is
\* the return address the frame captured, and the context's return address
\* becomes that address plus 4 (mod 2^64); a hypervisor call that resumes
\* leaves the context's return address at the same value; the hardware
\* return address register is not written between capture and dispatch
C39_SameAnchor ==
    /\ [](pc \in {"sync_from_lower_el1_rust", "handle_vm_exit"} =>
            frame[31] = elr_el2)
    /\ [][(DispatchStep /\ exit_info'.reason = <<"Svc">>) =>
            /\ exit_info'.far = frame[31]
            /\ Ctx.elr_el2 = frame[31]
            /\ Plus4(frame[31], exit_info'.return_addr)
            /\ Plus4(frame[31], Ctx'.elr_el2)]_vars
    /\ [][(DispatchStep /\ exit_info'.reason = <<"Hvc">> /\ ok') =>
            /\ Ctx.elr_el2 = frame[31]
            /\ Plus4(frame[31], Ctx'.elr_el2)]_vars

C39_Witness ==
    /\ Dispatched
    /\ exit_info.reason = <<"Svc">>
    /\ frame[31] = U(\h48000104)
    /\ Ctx.elr_el2 = U(\h48000108)
    /\ exit_info.return_addr = U(\h48000108)

\* C40: when the store records no current core, or the current slot is empty,
\* the Rust handler returns 0 at once: the dispatcher does not run, and the
\* store, the vGIC queues, the list registers, the frame and the guest vector
\* base are unchanged; the trampoline then parks
C40_NoCurrentTerminates ==
    /\ [][(pc = "sync_from_lower_el1_rust" /\ NoCurrentVcpu) =>
            /\ pc' = "sync_return"
            /\ ~ok'
            /\ UNCHANGED <<VCPU_MANAGER, VGIC_CPU_STATES, lr, frame, exit_info,
                           vbar_el1>>]_vars
    /\ [][(pc = "sync_return" /\ NoCurrentVcpu) =>
            /\ pc' = "wfi_loop"
            /\ UNCHANGED <<VCPU_MANAGER, VGIC_CPU_STATES, lr>>]_vars
    /\ [](NoCurrentVcpu => pc \notin {"handle_vm_exit", "handle_vm_exit_done"}
                           /\ exit_info = NoExit)

C40_Witness ==
    /\ pc = "wfi_loop"
    /\ VCPU_MANAGER.current_vcpu = Some(2)
    /\ VCPU_MANAGER.vcpus[2] = None
    /\ traps = 1
    /\ ~ok
    /\ exit_info = NoExit
    /\ lr[3] = PendingGroup1Value(31)
    /\ VGIC_CPU_STATES[0].pending_count = 3

----------------------------------------------------------------------------
(* Properties of the vector table and of the guest's life *)

\* the handlers of all entries but lower-level-AArch64 Sync, IRQ and FIQ
OtherEntryHandlers ==
    {hypervisor_vectors[n + 1] : n \in (0..15) \ {8, 9, 10}}
\* the loop of the parking handlers
LoopParked == pc \in {"loop_wfi", "loop_wfi_b"}
\* the entry points of the four lower-level-AArch64 handlers
LowerEntries ==
    {"sync_from_lower_el1", "irq_from_lower_el1", "fiq_from_lower_el1",
     "serror_from_lower_el1"}
\* inside the IRQ or FIQ trampoline
IrqFiqPcs ==
    {"irq_from_lower_el1", "trap_irq", "irq_return",
     "fiq_from_lower_el1", "trap_fiq", "fiq_return"}
\* inside any trampoline of a trap from the guest
TrampolinePcs ==
    IrqFiqPcs \cup {"sync_from_lower_el1", "sync_from_lower_el1_rust",
                    "handle_vm_exit", "handle_vm_exit_done", "sync_return",
                    "serror_from_lower_el1"}
\* host code before the privilege transfer
HostPcs == {"host", "virt_start_guest_run", "panic", "host_returned"}

\* C31 (as stated): once the handler of an entry other than lower-level
\* AArch64 Sync, IRQ or FIQ runs, or its loop, no step returns to the guest
C31_AsStated ==
    [][(pc \in OtherEntryHandlers \/ LoopParked) => pc' # "guest"]_vars

\* what does hold: every entry other than the four lower-level-AArch64 ones
\* is handled by a parking handler, and from those no step leaves the loop
C31_OtherEntriesPark ==
    /\ [](\A n \in (0..15) \ {8, 9, 10, 11} :
            hypervisor_vectors[n + 1] \in ParkingHandlers)
    /\ [][(pc \in ParkingHandlers \/ LoopParked) =>
            /\ pc' \in {"loop_wfi", "loop_wfi_b"}
            /\ UNCHANGED <<VCPU_MANAGER, VGIC_CPU_STATES, lr, x, traps>>]_vars

\* C32: an IRQ or FIQ trap changes neither the store (contexts, states,
\* request flags), nor the vGIC queues, nor the list registers, nor the guest
\* vector base; x0..x30, ELR_EL2 and SPSR_EL2 keep the values they had at the
\* trap through both trampolines and their exception returns
C32_IrqFiqNoWork ==
    /\ [][(pc = "guest" /\ pc' \in {"irq_from_lower_el1", "fiq_from_lower_el1"}) =>
            UNCHANGED <<VCPU_MANAGER, VGIC_CPU_STATES, lr, vbar_el1, x>>]_vars
    /\ [][(pc \in IrqFiqPcs /\ pc' \in IrqFiqPcs \cup {"guest"}) =>
            UNCHANGED <<VCPU_MANAGER, VGIC_CPU_STATES, lr, vbar_el1, x,
                        elr_el2, spsr_el2>>]_vars
    /\ [](pc \in {"irq_return", "fiq_return"} =>
            /\ \A i \in 0..30 : frame[i] = x[i]
            /\ frame[31] = elr_el2
            /\ frame[32] = spsr_el2)

C32_Witness ==
    /\ pc = "guest"
    /\ traps = 1
    /\ exit_info = NoExit
    /\ frame[31] = U(\h48000104)
    /\ elr_el2 = U(\h48000104)
    /\ spsr_el2 = U(\h5)
    /\ frame[32] = U(\h5)
    /\ lr[0] = LrActiveGroup1(32)

\* C33: from the first privilege transfer on the core's state field is
\* Running, in the guest, in every trampoline and in the wait loops
C33_StaysRunning ==
    [](pc \notin HostPcs =>
         /\ VCPU_MANAGER.current_vcpu = Some(0)
         /\ VCPU_MANAGER.vcpus[0] # None
         /\ VCPU_MANAGER.vcpus[0][1].state = "Running")

C33_Witness ==
    /\ pc = "wfi_loop_b"
    /\ ~ok
    /\ exit_info.reason = <<"Hvc">>
    /\ VCPU_MANAGER.vcpus[0][1].state = "Running"

----------------------------------------------------------------------------
(* Properties of the store: occupancy *)

\* C36: the occupied count is the number of occupied slots and at most 4; a
\* slot once occupied stays occupied by the same core (its id, entry and stack
\* top are what create gave it), so the count never falls; a current id names
\* an occupied slot
C36_Occupancy ==
    /\ [](/\ VCPU_MANAGER.count = Cardinality(Occupied(VCPU_MANAGER))
          /\ VCPU_MANAGER.count <= 4
          /\ VCPU_MANAGER.current_vcpu # None =>
                VCPU_MANAGER.current_vcpu[1] \in Occupied(VCPU_MANAGER))
    /\ [][/\ VCPU_MANAGER'.count >= VCPU_MANAGER.count
          /\ \A i \in Occupied(VCPU_MANAGER) :
               /\ i \in Occupied(VCPU_MANAGER')
               /\ VCPU_MANAGER'.vcpus[i][1].id = VCPU_MANAGER.vcpus[i][1].id
               /\ VCPU_MANAGER'.vcpus[i][1].entry = VCPU_MANAGER.vcpus[i][1].entry
               /\ VCPU_MANAGER'.vcpus[i][1].stack_top =
                     VCPU_MANAGER.vcpus[i][1].stack_top]_vars

C36_Witness ==
    /\ pc = "guest"
    /\ VCPU_MANAGER.count = 4
    /\ Occupied(VCPU_MANAGER) = 0..3
    /\ VCPU_MANAGER.current_vcpu = Some(2)
    /\ ret = Err("Reached max vCPU count")

----------------------------------------------------------------------------
(* vgic.rs: the queue under cpu_init, inject and flush in any order *)

\* vgic::cpu_init(current core)
CpuInit ==
    /\ pc = "vgic"
    /\ LET id == CurrentId
           r == cpu_init(VGIC_CPU_STATES, lr, id)
       IN  /\ VGIC_CPU_STATES' = r.vgic
           /\ lr' = r.lr
           /\ call' = Call("cpu_init", id, Zero64, Zero64)
    /\ UNCHANGED <<pc, VCPU_MANAGER, x, elr_el2, spsr_el2, esr_el2, vbar_el1,
                   frame, exit_info, ok, traps, ret, vgic_log>>

NextQueue ==
    \/ CpuInit
    \/ Inject(MaxInterleaved)
    \/ Flush
    \/ GuestAcknowledge
    \/ GuestDeactivate

SpecQueue == InitVgic /\ [][NextQueue]_vars

\* the ring indices of one core's queue are consistent
QueueWellFormed(vgic) ==
    /\ vgic.pending_head \in 0..(MAX_PENDING - 1)
    /\ vgic.pending_tail \in 0..(MAX_PENDING - 1)
    /\ vgic.pending_count \in 0..MAX_PENDING
    /\ vgic.pending_tail = (vgic.pending_head + vgic.pending_count) % MAX_PENDING

\* C35: under any sequence of cpu_init, inject and flush every core's queue
\* has head < 64, tail < 64, 0 <= count <= 64 and tail = (head + count) mod 64,
\* so flush never finds an index out of range
C35_QueueWellFormed ==
    \A i \in 0..(MAX_VCPUS - 1) : QueueWellFormed(VGIC_CPU_STATES[i])

C35_Witness ==
    /\ call.op = "flush"
    /\ vgic_log.injected = MaxInterleaved
    /\ LET q == VGIC_CPU_STATES[CurrentId] IN
         /\ q.pending_head = 2
         /\ q.pending_tail = 4
         /\ q.pending_count = 2

----------------------------------------------------------------------------
(* Properties of flush: what it leaves alone *)

\* the queue entries flush can take: none once the range test has reset it
Takeable(vgic) ==
    IF vgic.pending_head >= MAX_PENDING \/ vgic.pending_tail >= MAX_PENDING
    THEN 0 ELSE vgic.pending_count

\* list registers that hold a new identifier after the step
NewlyWritten == {i \in 0..(MAX_LR - 1) : lr'[i] # lr[i] /\ lr'[i] # Zero64}

\* C38: flush leaves every Pending and every Pending-and-Active list register
\* with the value it had; a register it changes was empty or Active and is
\* afterwards empty or Pending with one identifier taken from the queue, one
\* queue entry per register written
C38_PendingUntouched ==
    [][FlushStep =>
         /\ \A i \in 0..(MAX_LR - 1) :
              /\ LrState(lr[i]) \in {1, 3} => lr'[i] = lr[i]
              /\ lr'[i] # lr[i] =>
                   /\ LrState(lr[i]) \in {0, 2}
                   /\ \/ lr'[i] = Zero64
                      \/ \E k \in 0..(MAX_LR - 1) :
                           lr'[i] = PendingGroup1Value(
                              VGIC_CPU_STATES[CurrentId].pending_irqs[
                                 (VGIC_CPU_STATES[CurrentId].pending_head + k)
                                    % MAX_PENDING])
         /\ Cardinality(NewlyWritten) =
               Takeable(VGIC_CPU_STATES[CurrentId])
                  - VGIC_CPU_STATES'[CurrentId].pending_count
         /\ Cardinality(NewlyWritten) <= MAX_LR]_vars

C38_Witness ==
    /\ call.op = "flush"
    /\ lr[0] = LrPendingGroup1(200)
    /\ lr[1] = LrPendingGroup1(30)
    /\ lr[2] = LrPendingActiveGroup1(29)
    /\ lr[3] = LrPendingGroup1(201)
    /\ VGIC_CPU_STATES[CurrentId].pending_count = 1

----------------------------------------------------------------------------
(* vgic.rs, vector.rs: delivery.  The guest keeps trapping synchronously   *)
(* and being resumed, so flush keeps being called; it acknowledges what is *)
(* Pending in a list register.                                             *)

\* sync_from_lower_el1_rust: vgic::flush(id) on the way back to the guest
ResumeFlush ==
    /\ pc = "vgic"
    /\ LET id == CurrentId
           r == flush(VGIC_CPU_STATES, lr, id)
           cleared == ClearActive(lr, ICH_ELRSR(lr), 0)
       IN  /\ VGIC_CPU_STATES' = r.vgic
           /\ lr' = r.lr
           /\ vgic_log' = [vgic_log EXCEPT
                             !.written = @ \o WrittenBy(cleared, r.lr, 0)]
           /\ call' = Call("flush", id, Zero64, Zero64)
    /\ UNCHANGED <<pc, VCPU_MANAGER, x, elr_el2, spsr_el2, esr_el2, vbar_el1,
                   frame, exit_info, ok, traps, ret>>

DeliverQueueSamples == {QueueFrom(0, 0), QueueFrom(MAX_PENDING - 1, 2)}

DeliverLrSamples == VgicLrSamples

InitDeliver ==
    /\ pc = "vgic"
    /\ \E cur \in {MAX_VCPUS - 1}, q \in DeliverQueueSamples :
         /\ VCPU_MANAGER = RunningStore(cur)
         /\ VGIC_CPU_STATES = [i \in 0..(MAX_VCPUS - 1) |-> IF i = cur THEN q ELSE Vgic_new]
         /\ vgic_log = [accepted |-> QueueContents(q, 0), written |-> <<>>, injected |-> 0]
    /\ lr \in DeliverLrSamples
    /\ x = GuestRegs(Zero64)
    /\ elr_el2 = GuestEntry
    /\ spsr_el2 = U(\h3C5)
    /\ esr_el2 = Zero64
    /\ vbar_el1 = Zero64
    /\ frame = NoFrame
    /\ exit_info = NoExit
    /\ ok = FALSE
    /\ traps = 0
    /\ ret = NoReturn
    /\ call = NoCall

NextDeliver ==
    \/ Inject(MaxDeliver)
    \/ ResumeFlush
    \/ GuestAcknowledge
    \/ GuestDeactivate

\* the guest keeps trapping and being resumed; a Pending list register is
\* eventually acknowledged
SpecDeliver ==
    /\ InitDeliver
    /\ [][NextDeliver]_vars
    /\ WF_vars(ResumeFlush)
    /\ WF_vars(GuestAcknowledge)

\* the identifiers of a sequence
Range(seq) == {seq[k] : k \in 1..Len(seq)}

\* every identifier a queue of this specification can hold
DeliverIds == {200 + k : k \in 0..1} \cup {IntidOf(k) : k \in 0..(MaxDeliver - 1)}

\* C37: while the guest keeps being resumed after synchronous traps and
\* acknowledges what is Pending, every identifier inject accepted is
\* eventually written into a list register
C37_EventualDelivery ==
    \A id \in DeliverIds :
        (id \in Range(vgic_log.accepted)) ~> (id \in Range(vgic_log.written))

C37_Witness ==
    /\ call.op = "flush"
    /\ lr[1] = LrPendingGroup1(IntidOf(0))
    /\ lr[0] = LrPendingGroup1(200)
    /\ IntidOf(0) \in Range(vgic_log.accepted)
    /\ IntidOf(0) \in Range(vgic_log.written)

====
